---------------------------- MODULE Spec2Model ----------------------------
(***************************************************************************)
(* A model of xplain: the JSON history store (core/history_store.py), the  *)
(* backend request (core/copilot.py) and the command handlers (commands/). *)
(*                                                                         *)
(* Text is a sequence of one-character strings, so that lower(), strip()   *)
(* and the substring test are computed and not assumed.  None / JSON null  *)
(* in a text position is the one-element sequence NullText.                *)
(***************************************************************************)
EXTENDS Integers, Sequences, FiniteSets, TLC

VARIABLES
    loaded,     \* HistoryStore._entries is not None
    entries,    \* HistoryStore._entries (<<>> while not loaded)
    doc,        \* the backing document history.json
    doc0,       \* the document found when the store was constructed
    now,        \* the value the next time.time() returns
    ncalls,     \* number of store calls made so far
    last,       \* the last store call: its name and arguments
    result,     \* what the last store call returned or raised
    cached_token,   \* copilot._cached_token
    environ,    \* os.environ: GH_TOKEN, GITHUB_TOKEN and XPLAIN_MODEL
    helper,     \* what `gh auth token` does when run
    http,       \* the outcome of the last network call
    reply,      \* what the last ask_messages returned or raised
    posts,      \* HTTP requests issued by the last call or handler run
    backend_instance,   \* copilot._backend_instance
    selected_model,     \* copilot._selected_model
    ninstances, \* backends constructed so far in the process
    nasks,      \* number of ask_messages calls made so far (of a command: by its last run)
    got,        \* what the last token or backend lookup gave
    nlookups,   \* number of lookups and changes of their surroundings so far
    config,     \* config.config: the language from XPLAIN_LANG
    session,    \* the open chat: its conversation and language
    run,        \* the last handler run: what happened and how it ended
    nruns,      \* number of requests handled so far
    piped,      \* the text handed to _detect_content_type
    detected,   \* what _detect_content_type returned for it
    exporting,  \* the arguments of export_explanation and the state of the path
    written,    \* the text export_explanation left in the file
    procs,      \* the processes sharing history.json: where each is in add()
    completed,  \* the timestamps of the entries whose add() returned
    listing,    \* the rows of the last table xplain history printed
    tldr_mode   \* copilot._tldr_mode

storeVars == <<loaded, entries, doc, doc0, now, ncalls, last, result>>

backendVars ==
    <<cached_token, environ, helper, http, reply, posts, backend_instance,
      selected_model, ninstances, nasks, got, nlookups>>

handlerVars == <<config, session, run, nruns>>

toolVars == <<piped, detected, exporting, written>>

sideVars == <<procs, completed, listing, tldr_mode>>

vars == <<storeVars, backendVars, handlerVars, toolVars, sideVars>>

-----------------------------------------------------------------------------
(* Bounds of the model *)

\* store calls in one run
MaxCalls == 3

\* lines read by a chat on its own
MaxTurns == 3

\* add() calls started by the processes that share a document
MaxAdds == 3

\* entries in the small backing documents of Init
MaxSmallDoc == 2

\* ask_messages calls in one process
MaxAsks == 1

\* token and backend lookups, set_model calls and changes of the environment
\* in one process
MaxLookups == 4

\* requests handled, by one-shot commands and by lines of a chat
MaxRuns == 2

-----------------------------------------------------------------------------
(* Python values *)

MAX_ENTRIES == 500

NullText == <<"null">>

\* an Optional[str] is held as a sequence: of nothing for None, of the one
\* string for a str, so that None is none of the strings
NoneStr == <<>>

Given(s) == <<s>>

\* an Optional[dict] is held as the JSON text of the dict, or as NoMeta for
\* None, which is the text of no dict
NoMeta == "None"

MetaEmpty == "{}"

Min(a, b) == IF a < b THEN a ELSE b

Max(a, b) == IF a > b THEN a ELSE b

\* bool(s) of an Optional[str]: None and "" are falsy
PyTruthy(s) == s # NoneStr /\ s # Given("")

\* seq[start:] with Python's index normalisation
\* an assignment `x = v` followed by code using x: v is evaluated once
Let(v, F(_)) == CHOOSE out \in {F(x) : x \in {v}} : TRUE

PySliceFrom(seq, start) ==
    LET n == Len(seq)
        s == IF start < 0 THEN Max(n + start, 0) ELSE Min(start, n)
    IN  SubSeq(seq, s + 1, n)

\* seq[i]: a one-element sequence holding the item, or <<>> for IndexError
PyIndex(seq, i) ==
    LET n == Len(seq)
        j == IF i < 0 THEN i + n ELSE i
    IN  IF j < 0 \/ j >= n THEN <<>> ELSE <<seq[j + 1]>>

\* str.lower() on the model's alphabet
\* the capital letters str.lower() changes, of those a text of the model can
\* hold (code points up to U+00FF): A to Z and the accented capitals
\* U+00C0..U+00DE without the multiplication sign
UpperCase ==
    <<"A", "B", "C", "D", "E", "F", "G", "H", "I", "J", "K", "L", "M",
      "N", "O", "P", "Q", "R", "S", "T", "U", "V", "W", "X", "Y", "Z",
      "À", "Á", "Â", "Ã", "Ä", "Å", "Æ", "Ç", "È", "É",
      "Ê", "Ë", "Ì", "Í", "Î", "Ï", "Ð", "Ñ", "Ò", "Ó",
      "Ô", "Õ", "Ö", "Ø", "Ù", "Ú", "Û", "Ü", "Ý", "Þ">>

\* their small letters, in the same order
LowerCase ==
    <<"a", "b", "c", "d", "e", "f", "g", "h", "i", "j", "k", "l", "m",
      "n", "o", "p", "q", "r", "s", "t", "u", "v", "w", "x", "y", "z",
      "à", "á", "â", "ã", "ä", "å", "æ", "ç", "è", "é",
      "ê", "ë", "ì", "í", "î", "ï", "ð", "ñ", "ò", "ó",
      "ô", "õ", "ö", "ø", "ù", "ú", "û", "ü", "ý", "þ">>

Capitals == {UpperCase[i] : i \in 1..Len(UpperCase)}

LowerOf == [c \in Capitals |->
               LowerCase[CHOOSE i \in 1..Len(UpperCase) : UpperCase[i] = c]]

\* c.lower()
LowerChar(c) == IF c \in Capitals THEN LowerOf[c] ELSE c

Lower(t) == [i \in 1..Len(t) |-> LowerChar(t[i])]

\* needle in hay, for str
Contains(hay, needle) ==
    \E i \in 0..(Len(hay) - Len(needle)) :
        SubSeq(hay, i + 1, i + Len(needle)) = needle

-----------------------------------------------------------------------------
(* HistoryEntry and the backing document *)

HistoryEntry(ts, ctype, query, explanation, language, metadata) ==
    [timestamp |-> ts, command_type |-> ctype, query |-> query,
     explanation |-> explanation, language |-> language, metadata |-> metadata]

\* asdict(e): the JSON object written for an entry, with every key
AsDict(e) == [keys |-> "all", e |-> e]

\* HistoryEntry(**item): <<entry>>, or <<>> for TypeError
Construct(item) ==
    CASE item.keys = "all" -> <<item.e>>
      [] item.keys = "required" ->
            <<[item.e EXCEPT !.language = "en", !.metadata = MetaEmpty]>>
      [] OTHER -> <<>>

\* a document carries what it holds and whether write_text may replace it;
\* a document this program wrote is one it may write
ArrayDoc(items) == [kind |-> "array", items |-> items, writable |-> TRUE]

\* "unreadable" is a file of mode 000: neither read_text nor write_text works
OtherDoc(kind) == [kind |-> kind, items |-> <<>>, writable |-> kind # "unreadable"]

\* a file of mode 200: read_text raises, write_text rewrites it and leaves
\* its mode
WriteOnlyDoc == [kind |-> "unreadable", items |-> <<>>, writable |-> TRUE]

\* a file of mode 444
ReadOnly(d) == [d EXCEPT !.writable = FALSE]

SaveDoc(ents) == ArrayDoc([i \in 1..Len(ents) |-> AsDict(ents[i])])


-----------------------------------------------------------------------------
(* What a store call hands back *)

Returned(kind, val, n) ==
    [status |-> "ok", exc |-> "", kind |-> kind, val |-> val, n |-> n]

Raised(exc) ==
    [status |-> "raise", exc |-> exc, kind |-> "none", val |-> <<>>, n |-> 0]

NoCall ==
    [op |-> "init", ctype |-> NoneStr, query |-> <<>>, explanation |-> <<>>,
     language |-> NoneStr, metadata |-> NoMeta, limit |-> 0, index |-> 0]

-----------------------------------------------------------------------------
(* HistoryStore *)

\* HistoryStore._load: the cached list, or the document read and validated.
\* A document that cannot be read raises (only JSONDecodeError, TypeError and
\* KeyError are caught); every other failure yields the empty list.
_load(ld, ents, d) ==
    IF ld THEN [raised |-> FALSE, exc |-> "", entries |-> ents]
    ELSE CASE d.kind = "missing" ->
                [raised |-> FALSE, exc |-> "", entries |-> <<>>]
           [] d.kind = "unreadable" ->
                [raised |-> TRUE, exc |-> "PermissionError", entries |-> <<>>]
           [] d.kind = "undecodable" ->
                [raised |-> TRUE, exc |-> "UnicodeDecodeError", entries |-> <<>>]
           [] d.kind = "array" ->
                IF \A i \in 1..Len(d.items) : Construct(d.items[i]) # <<>>
                THEN [raised |-> FALSE, exc |-> "",
                      entries |-> [i \in 1..Len(d.items) |-> Construct(d.items[i])[1]]]
                ELSE [raised |-> FALSE, exc |-> "", entries |-> <<>>]
           [] OTHER ->
                \* "invalid" and "empty" (JSONDecodeError), "scalar" and "object"
                \* (TypeError), "emptyobject" (nothing to iterate)
                [raised |-> FALSE, exc |-> "", entries |-> <<>>]

\* write_text(json.dumps(data)) on document d: the new document, or d as it
\* was when the write raises; a file that can be written and not read keeps
\* its mode, so what was written still cannot be read
Written(kept, d) ==
    IF d.writable
    THEN [raised |-> FALSE, exc |-> "", entries |-> kept,
          doc |-> IF d.kind = "unreadable" THEN d ELSE SaveDoc(kept)]
    ELSE [raised |-> TRUE, exc |-> "PermissionError", entries |-> kept, doc |-> d]

\* HistoryStore._save on a loaded list: trim (kept in _entries whether or not
\* the write works), then rewrite the document
_saveKeepsOldest(ents, d) ==
    Written(IF Len(ents) > MAX_ENTRIES THEN SubSeq(ents, 1, MAX_ENTRIES) ELSE ents, d)

_saveNoTrim(ents, d) == Written(ents, d)

_save(ents, d) ==
    Written(IF Len(ents) > MAX_ENTRIES THEN PySliceFrom(ents, -MAX_ENTRIES) ELSE ents,
            d)

\* HistoryStore.add
\* as add, but the document is read again when the entry is written
addRereads(ld, ents, d, ts, ctype, query, explanation, language, metadata) ==
    LET l == _load(FALSE, <<>>, d)
        e == HistoryEntry(ts, ctype, query, explanation, language,
                          IF metadata \in {NoMeta, MetaEmpty} THEN MetaEmpty ELSE metadata)
        s == _save(Append(l.entries, e), d)
    IN  IF l.raised
        THEN [loaded |-> ld, entries |-> ents, doc |-> d, result |-> Raised(l.exc)]
        ELSE [loaded |-> TRUE, entries |-> s.entries, doc |-> s.doc,
              result |-> IF s.raised THEN Raised(s.exc)
                         ELSE Returned("none", <<>>, 0)]

addPrepends(ld, ents, d, ts, ctype, query, explanation, language, metadata) ==
    LET l == _load(ld, ents, d)
        e == HistoryEntry(ts, ctype, query, explanation, language, MetaEmpty)
        s == _save(<<e>> \o l.entries, d)
    IN  IF l.raised
        THEN [loaded |-> ld, entries |-> ents, doc |-> d, result |-> Raised(l.exc)]
        ELSE [loaded |-> TRUE, entries |-> s.entries, doc |-> s.doc,
              result |-> IF s.raised THEN Raised(s.exc)
                         ELSE Returned("none", <<>>, 0)]

add(ld, ents, d, ts, ctype, query, explanation, language, metadata) ==
    LET l == _load(ld, ents, d)
        e == HistoryEntry(ts, ctype, query, explanation, language,
                          IF metadata \in {NoMeta, MetaEmpty} THEN MetaEmpty ELSE metadata)
        s == _save(Append(l.entries, e), d)
    IN  IF l.raised
        THEN [loaded |-> ld, entries |-> ents, doc |-> d, result |-> Raised(l.exc)]
        ELSE [loaded |-> TRUE, entries |-> s.entries, doc |-> s.doc,
              result |-> IF s.raised THEN Raised(s.exc)
                         ELSE Returned("none", <<>>, 0)]

\* HistoryStore.list_entries
list_entries(ld, ents, d, limit, command_type) ==
    LET l == _load(ld, ents, d)
        f == IF PyTruthy(command_type)
             THEN SelectSeq(l.entries, LAMBDA e : e.command_type = command_type[1])
             ELSE l.entries
    IN  IF l.raised
        THEN [loaded |-> ld, entries |-> ents, doc |-> d, result |-> Raised(l.exc)]
        ELSE [loaded |-> TRUE, entries |-> l.entries, doc |-> d,
              result |-> Returned("list", PySliceFrom(f, -limit), 0)]

\* e.query.lower() raises AttributeError on None, and so does
\* e.explanation.lower() when the `or` gets to it
SearchFails(ents, query_lower) ==
    \E i \in 1..Len(ents) :
        \/ ents[i].query = NullText
        \/ /\ ents[i].explanation = NullText
           /\ ~Contains(Lower(ents[i].query), query_lower)

Matches(e, query_lower) ==
    \/ Contains(Lower(e.query), query_lower)
    \/ Contains(Lower(e.explanation), query_lower)

\* HistoryStore.search
search(ld, ents, d, query, limit) ==
    LET l == _load(ld, ents, d)
        query_lower == Lower(query)
        m == SelectSeq(l.entries, LAMBDA e : Matches(e, query_lower))
    IN  IF l.raised
        THEN [loaded |-> ld, entries |-> ents, doc |-> d, result |-> Raised(l.exc)]
        ELSE IF SearchFails(l.entries, query_lower)
        THEN [loaded |-> TRUE, entries |-> l.entries, doc |-> d,
              result |-> Raised("AttributeError")]
        ELSE [loaded |-> TRUE, entries |-> l.entries, doc |-> d,
              result |-> Returned("list", PySliceFrom(m, -limit), 0)]

\* HistoryStore.get
getFromOldest(ld, ents, d, index) ==
    LET l == _load(ld, ents, d)
    IN  IF l.raised
        THEN [loaded |-> ld, entries |-> ents, doc |-> d, result |-> Raised(l.exc)]
        ELSE [loaded |-> TRUE, entries |-> l.entries, doc |-> d,
              result |-> IF l.entries = <<>> \/ index < 1 \/ index > Len(l.entries)
                         THEN Returned("none", <<>>, 0)
                         ELSE Returned("entry", PyIndex(l.entries, index - 1), 0)]

get(ld, ents, d, index) ==
    LET l == _load(ld, ents, d)
    IN  IF l.raised
        THEN [loaded |-> ld, entries |-> ents, doc |-> d, result |-> Raised(l.exc)]
        ELSE [loaded |-> TRUE, entries |-> l.entries, doc |-> d,
              result |-> IF l.entries = <<>> \/ index < 1 \/ index > Len(l.entries)
                         THEN Returned("none", <<>>, 0)
                         ELSE Returned("entry", PyIndex(l.entries, -index), 0)]

\* HistoryStore.clear: _entries = [] first, so _save never reads the document
clear(ld, ents, d) ==
    LET s == _save(_load(TRUE, <<>>, d).entries, d)
    IN  [loaded |-> TRUE, entries |-> s.entries, doc |-> s.doc,
         result |-> IF s.raised THEN Raised(s.exc)
                    ELSE Returned("none", <<>>, 0)]

\* HistoryStore.count
count(ld, ents, d) ==
    LET l == _load(ld, ents, d)
    IN  IF l.raised
        THEN [loaded |-> ld, entries |-> ents, doc |-> d, result |-> Raised(l.exc)]
        ELSE [loaded |-> TRUE, entries |-> l.entries, doc |-> d,
              result |-> Returned("count", <<>>, Len(l.entries))]

-----------------------------------------------------------------------------
(* GitHubModelsBackend: the token and the request *)

\* the characters str.strip() and str.split() take for white space, of those a
\* text of the model can hold: space, \t, \n, \v, \f, \r, the separators
\* 0x1c..0x1f, NEL (0x85) and the no-break space (0xa0)
Whitespace ==
    {" ", "\t", "\n", "", "\f", "\r", "", "", "", "", "", " "}

\* bool(t) of an Optional[str] held as text
TextTruthy(t) == t # NullText /\ t # <<>>

\* a or b
PyOr(a, b) == IF TextTruthy(a) THEN a ELSE b

RECURSIVE StripLeft(_)
StripLeft(t) ==
    IF t # <<>> /\ t[1] \in Whitespace THEN StripLeft(Tail(t)) ELSE t

RECURSIVE StripRight(_)
StripRight(t) ==
    IF t # <<>> /\ t[Len(t)] \in Whitespace
    THEN StripRight(SubSeq(t, 1, Len(t) - 1)) ELSE t

\* str.strip()
Strip(t) == StripRight(StripLeft(t))

\* a text read in text mode, as Path.read_text() and subprocess.run(text=True)
\* give it: "\r\n" and "\r" are read as "\n"
RECURSIVE ReadText(_)
ReadText(t) ==
    IF t = <<>> THEN <<>>
    ELSE IF t[1] # "\r" THEN <<t[1]>> \o ReadText(Tail(t))
    ELSE IF Len(t) > 1 /\ t[2] = "\n" THEN <<"\n">> \o ReadText(SubSeq(t, 3, Len(t)))
    ELSE <<"\n">> \o ReadText(Tail(t))

\* as _get_github_token below, but the environment is read before the cache
_get_github_tokenChecksEnvironFirst(cached, env, hlp) ==
    LET token == PyOr(env.GH_TOKEN, env.GITHUB_TOKEN)
    IN  IF TextTruthy(token)
        THEN [token |-> token, cached |-> token,
              read_env |-> TRUE, ran_helper |-> FALSE]
        ELSE IF cached # NullText
        THEN [token |-> cached, cached |-> cached,
              read_env |-> TRUE, ran_helper |-> FALSE]
        ELSE IF hlp.installed /\ hlp.outcome = "ok"
        THEN [token |-> Strip(ReadText(hlp.stdout)),
                   cached |-> Strip(ReadText(hlp.stdout)),
              read_env |-> TRUE, ran_helper |-> TRUE]
        ELSE [token |-> NullText, cached |-> cached,
              read_env |-> TRUE, ran_helper |-> hlp.installed]

\* _get_github_token: the cached token, else the environment, else what the
\* helper printed, read in text mode and stripped;
\* yields the token returned (NullText for None), the new cache, and whether
\* os.environ was read and `gh auth token` was run
_get_github_token(cached, env, hlp) ==
    IF cached # NullText
    THEN [token |-> cached, cached |-> cached,
          read_env |-> FALSE, ran_helper |-> FALSE]
    ELSE LET token == PyOr(env.GH_TOKEN, env.GITHUB_TOKEN)
         IN  IF TextTruthy(token)
             THEN [token |-> token, cached |-> token,
                   read_env |-> TRUE, ran_helper |-> FALSE]
             ELSE IF hlp.installed /\ hlp.outcome = "ok"
             THEN [token |-> Strip(ReadText(hlp.stdout)),
                   cached |-> Strip(ReadText(hlp.stdout)),
                   read_env |-> TRUE, ran_helper |-> TRUE]
             ELSE [token |-> NullText, cached |-> cached,
                   read_env |-> TRUE, ran_helper |-> hlp.installed]

\* CopilotCLIError and its subclasses
CopilotCLIErrors ==
    {"CopilotCLIError", "CopilotNotFoundError", "BackendNotAvailableError"}

NoReply ==
    [status |-> "none", exc |-> "", diag |-> "", text |-> <<>>]

ReplyText(text) ==
    [status |-> "return", exc |-> "", diag |-> "", text |-> text]

ReplyError(exc, diag) ==
    [status |-> "raise", exc |-> exc, diag |-> diag, text |-> <<>>]

\* a response body: what json.loads makes of it, and for an object the
\* shape of its "error" key and of the path choices[0].message.content
Body(json, error, choices, first, message, content, text) ==
    [json |-> json, error |-> error, choices |-> choices, first |-> first,
     message |-> message, content |-> content, text |-> text]

NoBody == Body("none", "absent", "absent", "none", "none", "none", <<>>)

\* what the network does with a request
Outcome(transport, status_code, body) ==
    [sent |-> FALSE, transport |-> transport, status_code |-> status_code,
     body |-> body, token |-> NullText, messages |-> <<>>]

NoHttp == Outcome("none", 0, NoBody)

\* the body of a 200 response read by resp.json() and picked apart; only
\* KeyError and IndexError become CopilotCLIError
ParseBody(b) ==
    IF b.json = "invalid" THEN ReplyError("JSONDecodeError", "")
    ELSE IF b.json = "scalar" THEN ReplyError("TypeError", "")       \* "error" in 5
    ELSE IF b.json # "object" THEN ReplyError("TypeError", "")       \* data["choices"]
    ELSE IF b.error # "absent" THEN
        IF b.error \in {"dict_message", "dict_plain"}
        THEN ReplyError("CopilotCLIError", "GitHub Models API error")
        ELSE ReplyError("AttributeError", "")                         \* .get on str / None
    ELSE IF b.choices = "absent"
        THEN ReplyError("CopilotCLIError", "Failed to parse API response")   \* KeyError
    ELSE IF b.choices = "null" THEN ReplyError("TypeError", "")
    ELSE IF b.choices = "empty"
        THEN ReplyError("CopilotCLIError", "Failed to parse API response")   \* IndexError
    ELSE IF b.choices = "dict"
        THEN ReplyError("CopilotCLIError", "Failed to parse API response")   \* KeyError
    ELSE IF b.first = "null" THEN ReplyError("TypeError", "")
    ELSE IF b.message = "absent"
        THEN ReplyError("CopilotCLIError", "Failed to parse API response")   \* KeyError
    ELSE IF b.message = "null" THEN ReplyError("TypeError", "")
    ELSE IF b.content = "absent"
        THEN ReplyError("CopilotCLIError", "Failed to parse API response")   \* KeyError
    ELSE IF b.content \in {"null", "number"} THEN ReplyError("AttributeError", "")
    ELSE ReplyText(Strip(b.text))

\* as ask_messages below, but a request the server refuses is sent again
ask_messagesRetries(cached, env, hlp, messages, o) ==
    LET t == _get_github_token(cached, env, hlp)
        sent == [o EXCEPT !.sent = TRUE, !.token = t.token, !.messages = messages]
    IN  IF ~TextTruthy(t.token)
        THEN [cached |-> t.cached, http |-> NoHttp, posts |-> 0,
              reply |-> ReplyError("BackendNotAvailableError",
                                   "No GitHub token available")]
        ELSE IF o.transport # "ok"
        THEN [cached |-> t.cached, http |-> sent, posts |-> 2,
              reply |-> ReplyError(o.transport, "")]
        ELSE IF o.status_code # 200
        THEN [cached |-> t.cached, http |-> sent, posts |-> 2,
              reply |-> ReplyError("CopilotCLIError", "GitHub Models API HTTP")]
        ELSE [cached |-> t.cached, http |-> sent, posts |-> 1,
              reply |-> ParseBody(o.body)]

\* GitHubModelsBackend.ask_messages: o is what the network does with the
\* request, should one be sent
ask_messages(cached, env, hlp, messages, o) ==
    LET t == _get_github_token(cached, env, hlp)
        sent == [o EXCEPT !.sent = TRUE, !.token = t.token, !.messages = messages]
    IN  IF ~TextTruthy(t.token)
        THEN [cached |-> t.cached, http |-> NoHttp, posts |-> 0,
              reply |-> ReplyError("BackendNotAvailableError",
                                   "No GitHub token available")]
        ELSE IF o.transport # "ok"
        THEN [cached |-> t.cached, http |-> sent, posts |-> 1,
              reply |-> ReplyError(o.transport, "")]
        ELSE IF o.status_code # 200
        THEN [cached |-> t.cached, http |-> sent, posts |-> 1,
              reply |-> ReplyError("CopilotCLIError", "GitHub Models API HTTP")]
        ELSE [cached |-> t.cached, http |-> sent, posts |-> 1,
              reply |-> ParseBody(o.body)]

Message(role, content) == [role |-> role, content |-> content]

\* GitHubModelsBackend.ask: one user message, after the system message if any
ask(cached, env, hlp, prompt, system_prompt, o) ==
    ask_messages(cached, env, hlp,
                 (IF TextTruthy(system_prompt)
                  THEN <<Message("system", system_prompt)>> ELSE <<>>)
                 \o <<Message("user", prompt)>>,
                 o)

-----------------------------------------------------------------------------
(* Texts, numbers and paths as Python handles them *)

DigitChars == <<"0", "1", "2", "3", "4", "5", "6", "7", "8", "9">>

\* str(n) and f"{n}" of an integer
RECURSIVE Decimal(_)
Decimal(n) ==
    IF n < 10 THEN <<DigitChars[n + 1]>>
    ELSE Decimal(n \div 10) \o <<DigitChars[(n % 10) + 1]>>

Str(n) == IF n < 0 THEN <<"-">> \o Decimal(-n) ELSE Decimal(n)

DigitValue(c) == (CHOOSE i \in 1..10 : DigitChars[i] = c) - 1

\* the number written by digits with single underscores between them
RECURSIVE DigitsValue(_, _)
DigitsValue(t, acc) ==
    IF t = <<>> THEN acc
    ELSE IF Head(t) = "_" THEN DigitsValue(Tail(t), acc)
    ELSE DigitsValue(Tail(t), acc * 10 + DigitValue(Head(t)))

\* the white space int() skips around a number: that of str.strip() without
\* the separators 0x1c..0x1f
IntSpace == {" ", "\t", "\n", "", "\f", "\r", "", " "}

\* int(t) of a text: white space around it, a sign, then ASCII digits that
\* single underscores may separate; ok is FALSE for ValueError
IntOf(t) ==
    LET inner == {i \in 1..Len(t) : t[i] \notin IntSpace}
        s == IF inner = {} THEN <<>>
             ELSE SubSeq(t, CHOOSE i \in inner : \A j \in inner : i <= j,
                         CHOOSE i \in inner : \A j \in inner : j <= i)
        signed == s # <<>> /\ s[1] \in {"+", "-"}
        d == IF signed THEN Tail(s) ELSE s
        isdigit(c) == \E i \in 1..10 : DigitChars[i] = c
        wellformed ==
            /\ d # <<>>
            /\ \A i \in 1..Len(d) : isdigit(d[i]) \/ d[i] = "_"
            /\ isdigit(d[1]) /\ isdigit(d[Len(d)])
            /\ \A i \in 1..(Len(d) - 1) : ~(d[i] = "_" /\ d[i + 1] = "_")
    IN  IF ~wellformed THEN [ok |-> FALSE, value |-> 0]
        ELSE [ok |-> TRUE,
              value |-> IF signed /\ s[1] = "-" THEN -DigitsValue(d, 0)
                        ELSE DigitsValue(d, 0)]

\* t.split(sep) for a separator of one character
RECURSIVE Split(_, _)
Split(t, sep) ==
    IF \A i \in 1..Len(t) : t[i] # sep THEN <<t>>
    ELSE LET i == CHOOSE k \in 1..Len(t) :
                      t[k] = sep /\ \A j \in 1..(k - 1) : t[j] # sep
         IN  <<SubSeq(t, 1, i - 1)>> \o Split(SubSeq(t, i + 1, Len(t)), sep)

\* seq[lo:hi], the bounds counted from the end when negative
PySlice(seq, lo, hi) ==
    LET n == Len(seq)
        l == IF lo < 0 THEN Max(0, n + lo) ELSE Min(lo, n)
        h == IF hi < 0 THEN Max(0, n + hi) ELSE Min(hi, n)
    IN  SubSeq(seq, l + 1, h)

\* the line boundaries of str.splitlines(); "\r" followed by "\n" is one
LineBoundaries == {"\n", "\r", "", "\f", "", "", "", ""}

\* str.splitlines()
RECURSIVE SplitLines(_)
SplitLines(t) ==
    IF t = <<>> THEN <<>>
    ELSE IF \A i \in 1..Len(t) : t[i] \notin LineBoundaries THEN <<t>>
    ELSE LET i == CHOOSE k \in 1..Len(t) :
                      /\ t[k] \in LineBoundaries
                      /\ \A j \in 1..(k - 1) : t[j] \notin LineBoundaries
             n == IF t[i] = "\r" /\ i < Len(t) /\ t[i + 1] = "\n" THEN i + 2
                  ELSE i + 1
         IN  <<SubSeq(t, 1, i - 1)>> \o SplitLines(SubSeq(t, n, Len(t)))

\* "\n".join(lines)
RECURSIVE Join(_)
Join(lines) ==
    IF lines = <<>> THEN <<>>
    ELSE IF Len(lines) = 1 THEN lines[1]
    ELSE lines[1] \o <<"\n">> \o Join(Tail(lines))

\* the last position of c in t, 0 if there is none
LastIndexOf(t, c) ==
    IF \E i \in 1..Len(t) : t[i] = c
    THEN CHOOSE i \in 1..Len(t) :
             t[i] = c /\ \A j \in (i + 1)..Len(t) : t[j] # c
    ELSE 0

\* PurePosixPath(t).name: the last component that is neither empty nor ".",
\* or the empty text when there is none
PathName(t) ==
    LET parts == SelectSeq(Split(t, "/"), LAMBDA c : c # <<>> /\ c # <<".">>)
    IN  IF parts = <<>> THEN <<>> ELSE parts[Len(parts)]

\* the characters U+0080..U+00FF, which take two bytes in a file name
TwoByteChars ==
    {"", "", "", "", "", "", "", "", "", "", "", "", "", "", "", "",
     "", "", "", "", "", "", "", "", "", "", "", "", "", "", "", "",
     " ", "¡", "¢", "£", "¤", "¥", "¦", "§", "¨", "©", "ª", "«", "¬", "­", "®", "¯",
     "°", "±", "²", "³", "´", "µ", "¶", "·", "¸", "¹", "º", "»", "¼", "½", "¾", "¿",
     "À", "Á", "Â", "Ã", "Ä", "Å", "Æ", "Ç", "È", "É", "Ê", "Ë", "Ì", "Í", "Î", "Ï",
     "Ð", "Ñ", "Ò", "Ó", "Ô", "Õ", "Ö", "×", "Ø", "Ù", "Ú", "Û", "Ü", "Ý", "Þ", "ß",
     "à", "á", "â", "ã", "ä", "å", "æ", "ç", "è", "é", "ê", "ë", "ì", "í", "î", "ï",
     "ð", "ñ", "ò", "ó", "ô", "õ", "ö", "÷", "ø", "ù", "ú", "û", "ü", "ý", "þ", "ÿ"}

\* the length of a text in bytes
Utf8Len(t) == Len(t) + Cardinality({i \in 1..Len(t) : t[i] \in TwoByteChars})

\* the longest file name and the longest path the system takes, in bytes
NAME_MAX == 255

PATH_MAX == 4096

FileNode(readable, content) ==
    [kind |-> "file", readable |-> readable, content |-> content]

DirNode == [kind |-> "dir", readable |-> TRUE, content |-> <<>>]

\* the directory a command is run in, which is the root of its file system:
\* a file f, a file s that may not be read, and a directory d with a file f;
\* a node is reached by the names that lead to it
WorkingDir ==
    [path \in {<<>>, <<<<"f">>>>, <<<<"s">>>>, <<<<"d">>>>, <<<<"d">>, <<"f">>>>} |->
        CASE path = <<<<"f">>>> -> FileNode(TRUE, <<"x", "\r", "y">>)
          [] path = <<<<"s">>>> -> FileNode(FALSE, <<"x">>)
          [] path = <<<<"d">>, <<"f">>>> ->
                FileNode(TRUE, <<"x", "\n", "y", "\r", "\n", "z">>)
          [] OTHER -> DirNode]

\* the names of Path(t): what stands between the slashes, but for "" and "."
Parts(t) == SelectSeq(Split(t, "/"), LAMBDA c : c # <<>> /\ c # <<".">>)

RECURSIVE NamesBytes(_)
NamesBytes(parts) ==
    IF parts = <<>> THEN 0 ELSE Utf8Len(Head(parts)) + NamesBytes(Tail(parts))

\* the length in bytes of str(Path(t)): the root ("/", or "//" for just two
\* slashes), the names and a slash between two names; "." when there is nothing
PathBytes(t) ==
    LET parts == Parts(t)
        slashes == IF t = <<>> \/ t[1] # "/" THEN 0
                   ELSE IF Len(t) = 1 \/ t[2] # "/" THEN 1
                   ELSE IF Len(t) = 2 \/ t[3] # "/" THEN 2
                   ELSE 1
    IN  IF parts = <<>> THEN Max(slashes, 1)
        ELSE slashes + NamesBytes(parts) + Len(parts) - 1

\* the system looks up the names one by one from the directory reached so
\* far: a name in a file fails (ENOTDIR), ".." leads up, a name of more than
\* NAME_MAX bytes fails (ENAMETOOLONG), a name that is not there fails (ENOENT)
RECURSIVE Walk(_, _)
Walk(at, parts) ==
    IF parts = <<>> THEN [status |-> "found", node |-> WorkingDir[at]]
    ELSE IF WorkingDir[at].kind # "dir"
    THEN [status |-> "ENOTDIR", node |-> DirNode]
    ELSE IF Head(parts) = <<".", ".">>
    THEN Walk(IF at = <<>> THEN at ELSE SubSeq(at, 1, Len(at) - 1), Tail(parts))
    ELSE IF Utf8Len(Head(parts)) > NAME_MAX
    THEN [status |-> "ENAMETOOLONG", node |-> DirNode]
    ELSE IF Append(at, Head(parts)) \notin DOMAIN WorkingDir
    THEN [status |-> "ENOENT", node |-> DirNode]
    ELSE Walk(Append(at, Head(parts)), Tail(parts))

\* os.stat(Path(t)): a path of PATH_MAX bytes or more is not looked up
Stat(t) ==
    IF PathBytes(t) >= PATH_MAX
    THEN [status |-> "ENAMETOOLONG", node |-> DirNode]
    ELSE Walk(<<>>, Parts(t))

\* Path(t).exists(): "yes", "no" for what is not there, and "OSError" when
\* the path or a name looked up is too long, which exists() does not catch
Exists(t) ==
    LET found == Stat(t).status
    IN  IF found = "found" THEN "yes"
        ELSE IF found = "ENAMETOOLONG" THEN "OSError" ELSE "no"

\* Path(t).read_text() raises: on a directory, on a file that may not be read
Unreadable(t) ==
    LET node == Stat(t).node IN node.kind # "file" \/ ~node.readable

-----------------------------------------------------------------------------
(* The command handlers *)

\* the keys of config.LANGUAGE_NAMES
LANGUAGE_NAMES == {"en", "vi", "zh", "ja", "ko", "es", "fr", "de", "pt", "ru"}

\* how each language code is written
Spelling ==
    [en |-> <<"e", "n">>, vi |-> <<"v", "i">>, zh |-> <<"z", "h">>,
     ja |-> <<"j", "a">>, ko |-> <<"k", "o">>, es |-> <<"e", "s">>,
     fr |-> <<"f", "r">>, de |-> <<"d", "e">>, pt |-> <<"p", "t">>,
     ru |-> <<"r", "u">>]

SYSTEM_PROMPT == <<"s">>

SYSTEM_PROMPT_TLDR == <<"t">>

\* history[-10:] in chat_with_copilot
CONTEXT_MESSAGES == 10

\* content[:200] in pipe_cmd
QUERY_PREVIEW == 200

StartsWith(t, prefix) ==
    Len(t) >= Len(prefix) /\ SubSeq(t, 1, Len(prefix)) = prefix

\* str.split(): the maximal runs of non-whitespace
RECURSIVE Words(_)
Words(t) ==
    LET s == StripLeft(t)
        ws == {i \in 1..Len(s) : s[i] \in Whitespace}
        n == IF ws = {} THEN Len(s) + 1
             ELSE CHOOSE i \in ws : \A j \in ws : i <= j
    IN  IF s = <<>> THEN <<>>
        ELSE <<SubSeq(s, 1, n - 1)>> \o Words(SubSeq(s, n, Len(s)))

\* config.DEFAULT_MODEL, what XPLAIN_MODEL defaults to
DEFAULT_MODEL == "openai/gpt-4o-mini"

\* no backend object: _backend_instance is None
NoInstance == [id |-> 0, model |-> ""]

\* GitHubModelsBackend.__init__: id tells the objects apart; without a model
\* (None or "") XPLAIN_MODEL is taken, and the default if that is not set
GitHubModelsBackend(model, env, id) ==
    [id |-> id,
     model |-> IF PyTruthy(model) THEN model[1]
               ELSE IF env.XPLAIN_MODEL # NoneStr THEN env.XPLAIN_MODEL[1]
               ELSE DEFAULT_MODEL]

\* GitHubModelsBackend.name, in its three parts
name(backend) == <<"GitHub Models API (", backend.model, ")">>

\* GitHubModelsBackend.is_available
is_available(cached, env, hlp) ==
    LET t == _get_github_token(cached, env, hlp)
    IN  [value |-> t.token # NullText, cached |-> t.cached]

\* as set_model below, but a backend already constructed is kept
set_modelKeepsInstance(inst, sel, model) ==
    [instance |-> inst, selected |-> model]

\* set_model: remember the model and drop the constructed backend
set_model(inst, sel, model) ==
    [instance |-> NoInstance, selected |-> model]

\* the setter of GitHubModelsBackend.model: the same object, another model
model_setter(backend, value) == [backend EXCEPT !.model = value]

\* set_tldr_mode
set_tldr_mode(enabled) == enabled

\* as _select_backend below, but the new backend is kept even if unavailable
_select_backendKeepsUnavailable(inst, sel, n, cached, env, hlp) ==
    LET backend == GitHubModelsBackend(sel, env, n + 1)
        a == is_available(cached, env, hlp)
    IN  IF inst # NoInstance
        THEN [available |-> TRUE, backend |-> inst, instance |-> inst,
              ninstances |-> n, cached |-> cached]
        ELSE IF a.value
        THEN [available |-> TRUE, backend |-> backend, instance |-> backend,
              ninstances |-> n + 1, cached |-> a.cached]
        ELSE [available |-> FALSE, backend |-> NoInstance, instance |-> backend,
              ninstances |-> n + 1, cached |-> a.cached]

\* _select_backend: the constructed backend if there is one, else a new one
\* that is kept if it is available, else an error
_select_backend(inst, sel, n, cached, env, hlp) ==
    LET backend == GitHubModelsBackend(sel, env, n + 1)
        a == is_available(cached, env, hlp)
    IN  IF inst # NoInstance
        THEN [available |-> TRUE, backend |-> inst, instance |-> inst,
              ninstances |-> n, cached |-> cached]
        ELSE IF a.value
        THEN [available |-> TRUE, backend |-> backend, instance |-> backend,
              ninstances |-> n + 1, cached |-> a.cached]
        ELSE [available |-> FALSE, backend |-> NoInstance, instance |-> NoInstance,
              ninstances |-> n + 1, cached |-> a.cached]

\* the result of a backend call with the backend that was selected for it,
\* and the number of times ask_messages was called
Selected(b, r, asks) ==
    [cached |-> r.cached, http |-> r.http, posts |-> r.posts, reply |-> r.reply,
     asks |-> asks, instance |-> b.instance, ninstances |-> b.ninstances]

NotAvailable(b) ==
    [cached |-> b.cached, http |-> NoHttp, posts |-> 0,
     reply |-> ReplyError("BackendNotAvailableError", "No AI backend available")]

\* ask_copilot: select the backend, then ask with the system prompt of the
\* mode the process is in
ask_copilot(p, prompt, o) ==
    Let(_select_backend(p.instance, p.selected, p.ninstances, p.cached,
                        p.environ, p.helper), LAMBDA b :
        IF ~b.available
        THEN Selected(b, NotAvailable(b), 0)
        ELSE Let(ask(b.cached, p.environ, p.helper, prompt,
                     IF p.tldr THEN SYSTEM_PROMPT_TLDR ELSE SYSTEM_PROMPT, o),
                 LAMBDA r : Selected(b, r, 1)))

\* chat_with_copilot: system message, the last ten of the conversation,
\* then the user's message again
chat_with_copilot(p, message, history, language, o) ==
    LET messages ==
            <<Message("system", <<"c", ":">> \o Spelling[language])>>
            \o PySliceFrom(history, -CONTEXT_MESSAGES)
            \o <<Message("user", message)>>
    IN  Let(_select_backend(p.instance, p.selected, p.ninstances, p.cached,
                            p.environ, p.helper), LAMBDA b :
            IF ~b.available
            THEN Selected(b, NotAvailable(b), 0)
            ELSE Let(ask_messages(b.cached, p.environ, p.helper, messages, o),
                     LAMBDA r : Selected(b, r, 1)))

\* what a handler works with: the process's token cache and store object,
\* the backing document, the environment and the clock
Process(cached, ld, ents, d, env, hlp, cfg, ts) ==
    [cached |-> cached, loaded |-> ld, entries |-> ents, doc |-> d,
     http |-> NoHttp, reply |-> NoReply, posts |-> 0, asks |-> 0,
     instance |-> NoInstance, selected |-> NoneStr, ninstances |-> 0,
     tldr |-> FALSE,
     environ |-> env, helper |-> hlp, config |-> cfg, now |-> ts]

\* the handler ends: typer.Exit(code), or falling off its end (code 0)
Exit(p, events, code) ==
    [p |-> p, events |-> events, exit_code |-> code, uncaught |-> ""]

\* the handler ends with an exception nothing catches
Crash(p, events, exc) ==
    [p |-> p, events |-> events, exit_code |-> 1, uncaught |-> exc]

After(events, r) == [r EXCEPT !.events = events \o @]

\* lang or config.language
OutputLang(p, lang) == IF PyTruthy(lang) THEN lang[1] ELSE p.config.language

\* the prompt built around the handler's input
Prompt(tag, text, language) == <<tag, ":">> \o text \o Spelling[language]

\* as TryExplain below, but the entry is added whether or not the backend
\* call returned
TryExplainSavesFailures(p, ctype, query, language, prompt, o, export, catches_all) ==
    Let(ask_copilot(p, prompt, o), LAMBDA r :
    Let(add(p.loaded, p.entries, p.doc, p.now, ctype, query,
            r.reply.text, language, NoMeta), LAMBDA a :
        LET q == [p EXCEPT !.cached = r.cached, !.http = r.http,
                           !.reply = r.reply, !.posts = r.posts, !.asks = r.asks,
                           !.instance = r.instance,
                           !.ninstances = r.ninstances]
            qa == [q EXCEPT !.loaded = a.loaded, !.entries = a.entries,
                            !.doc = a.doc]
            Fail(pp, events, exc) ==
                IF exc \in CopilotCLIErrors \/ catches_all
                THEN Exit(pp, events, 1) ELSE Crash(pp, events, exc)
        IN  IF r.reply.status = "raise"
            THEN Fail(qa, <<"backend_raise", "add">>, r.reply.exc)
            ELSE IF export = "OSError"
            THEN Fail(q, <<"backend_return", "render_raise">>, "OSError")
            ELSE IF a.result.status = "raise"
            THEN Fail(qa, <<"backend_return", "render", "add_raise">>,
                      a.result.exc)
            ELSE Exit(qa, <<"backend_return", "render", "add">>, 0)))

\* as TryExplain below, but a backend call that raised ends the handler with 0
TryExplainIgnoresFailures(p, ctype, query, language, prompt, o, export, catches_all) ==
    Let(ask_copilot(p, prompt, o), LAMBDA r :
        LET q == [p EXCEPT !.cached = r.cached, !.http = r.http,
                           !.reply = r.reply, !.posts = r.posts, !.asks = r.asks,
                           !.instance = r.instance,
                           !.ninstances = r.ninstances]
            Fail(pp, events, exc) ==
                IF exc \in CopilotCLIErrors \/ catches_all
                THEN Exit(pp, events, 1) ELSE Crash(pp, events, exc)
        IN  IF r.reply.status = "raise"
            THEN Exit(q, <<"backend_raise">>, 0)
            ELSE IF export = "OSError"
            THEN Fail(q, <<"backend_return", "render_raise">>, "OSError")
            ELSE Let(add(p.loaded, p.entries, p.doc, p.now, ctype, query,
                         r.reply.text, language, NoMeta), LAMBDA a :
                 LET qa == [q EXCEPT !.loaded = a.loaded,
                                     !.entries = a.entries, !.doc = a.doc]
                 IN  IF a.result.status = "raise"
                     THEN Fail(qa, <<"backend_return", "render", "add_raise">>,
                               a.result.exc)
                     ELSE Exit(qa, <<"backend_return", "render", "add">>, 0)))

\* the try block of a handler: the backend call, print_explanation (which
\* exports to the output file), history.add; CopilotCLIError is caught, and
\* where the handler has `except Exception` everything else is too
TryExplain(p, ctype, query, language, prompt, o, export, catches_all) ==
    Let(ask_copilot(p, prompt, o), LAMBDA r :
        LET q == [p EXCEPT !.cached = r.cached, !.http = r.http,
                           !.reply = r.reply, !.posts = r.posts, !.asks = r.asks,
                           !.instance = r.instance,
                           !.ninstances = r.ninstances]
            Fail(pp, events, exc) ==
                IF exc \in CopilotCLIErrors \/ catches_all
                THEN Exit(pp, events, 1) ELSE Crash(pp, events, exc)
        IN  IF r.reply.status = "raise"
            THEN Fail(q, <<"backend_raise">>, r.reply.exc)
            ELSE IF export = "OSError"
            THEN Fail(q, <<"backend_return", "render_raise">>, "OSError")
            ELSE Let(add(p.loaded, p.entries, p.doc, p.now, ctype, query,
                         r.reply.text, language, NoMeta), LAMBDA a :
                 LET qa == [q EXCEPT !.loaded = a.loaded,
                                     !.entries = a.entries, !.doc = a.doc]
                 IN  IF a.result.status = "raise"
                     THEN Fail(qa, <<"backend_return", "render", "add_raise">>,
                               a.result.exc)
                     ELSE Exit(qa, <<"backend_return", "render", "add">>, 0)))

\* as cmd, but the entry is stored under the name of the function
cmdStoresName(p, command, lang, o, export) ==
    LET output_lang == OutputLang(p, lang)
    IN  IF output_lang \notin LANGUAGE_NAMES
        THEN Exit(p, <<"validate_fail">>, 1)
        ELSE After(<<"validate">>,
                   TryExplain(p, "explain_command", command, output_lang,
                              Prompt("c", command, output_lang),
                              o, export, TRUE))

\* xplain cmd
cmd(p, command, lang, o, export) ==
    LET output_lang == OutputLang(p, lang)
    IN  IF output_lang \notin LANGUAGE_NAMES
        THEN Exit(p, <<"validate_fail">>, 1)
        ELSE After(<<"validate">>,
                   TryExplain(p, "cmd", command, output_lang,
                              Prompt("c", command, output_lang),
                              o, export, TRUE))

\* xplain error: the context file, when one is given (file is NullText for
\* None), must exist and be readable; asking whether it exists is outside
\* any try
error_cmd(p, message, context, file, lang, o, export) ==
    LET output_lang == OutputLang(p, lang)
        given == file # NullText
        found == IF given THEN Exists(file) ELSE "no"
        full_context ==
            PyOr(context, <<>>)
            \o (IF given THEN ReadText(Stat(file).node.content) ELSE <<>>)
    IN  IF output_lang \notin LANGUAGE_NAMES
        THEN Exit(p, <<"validate_fail">>, 1)
        ELSE IF found = "OSError"
        THEN Crash(p, <<"validate", "gather_fail">>, "OSError")
        ELSE IF given /\ (found = "no" \/ Unreadable(file))
        THEN Exit(p, <<"validate", "gather_fail">>, 1)
        ELSE After(<<"validate", "gather">>,
                   TryExplain(p, "error", message, output_lang,
                              Prompt("e", message \o full_context, output_lang),
                              o, export, TRUE))

\* --lines START-END: start, end = map(int, lines.split("-")); ok is FALSE
\* for the ValueError of a text that is not two integers
LineRange(lines) ==
    LET pieces == Split(lines, "-")
        start == IntOf(pieces[1])
        end == IntOf(pieces[2])
    IN  IF Len(pieces) = 2 /\ start.ok /\ end.ok
        THEN [ok |-> TRUE, start |-> start.value, end |-> end.value]
        ELSE [ok |-> FALSE, start |-> 0, end |-> 0]

\* xplain code: the code comes from stdin (source is NullText for None, or
\* "-"), from the file the argument names, or is the argument itself; of a
\* file, the lines asked for, and its name without the directories. Asking
\* whether the argument names a file is outside any try
code_cmd(p, source, lines, stdin, lang, o, export) ==
    LET output_lang == OutputLang(p, lang)
        piped_in == source \in {NullText, <<"-">>}
        found == IF piped_in THEN "no" ELSE Exists(source)
        isfile == found = "yes"
        ranged == isfile /\ TextTruthy(lines)
        range == LineRange(lines)
        read == ReadText(Stat(source).node.content)
        code_content ==
            IF piped_in THEN stdin.text
            ELSE IF ranged
            THEN Join(PySlice(SplitLines(read), range.start - 1, range.end))
            ELSE IF isfile THEN read
            ELSE source
        filename ==
            IF ranged
            THEN PathName(source) \o <<" ", "(", "l", "i", "n", "e", "s", " ">>
                 \o Str(range.start) \o <<"-">> \o Str(range.end) \o <<")">>
            ELSE IF isfile THEN PathName(source)
            ELSE NullText
        file_context ==
            IF TextTruthy(filename) THEN <<"(">> \o filename \o <<")">> ELSE <<>>
        query == PyOr(filename, PyOr(source, <<"s", "t", "d", "i", "n">>))
    IN  IF output_lang \notin LANGUAGE_NAMES
        THEN Exit(p, <<"validate_fail">>, 1)
        ELSE IF found = "OSError"
        THEN Crash(p, <<"validate", "gather_fail">>, "OSError")
        ELSE IF \/ source = NullText /\ stdin.isatty
                \/ isfile /\ Unreadable(source)
                \/ ranged /\ ~range.ok
        THEN Exit(p, <<"validate", "gather_fail">>, 1)
        ELSE IF Strip(code_content) = <<>>
        THEN Exit(p, <<"validate", "gather_fail">>, 1)
        ELSE After(<<"validate", "gather">>,
                   TryExplain(p, "code", query, output_lang,
                              Prompt("k", file_context \o code_content, output_lang),
                              o, export, TRUE))

GitDiff == <<"g", "i", "t", " ", "d", "i", "f", "f", " ">>

Staged == <<"-", "-", "s", "t", "a", "g", "e", "d">>

WorkingTree == <<"w", "o", "r", "k", "i", "n", "g", " ", "t", "r", "e", "e">>

\* max_chars in diff_cmd
MAX_CHARS == 8000

Truncated == <<"\n", "\n", ".", ".", ".", " ", "(", "t", "r", "u", "n", "c", "a", "t", "e", "d", ")">>

\* xplain diff: git is what running `git diff` does, its output read in text
\* mode. Of the exceptions subprocess.run raises only FileNotFoundError is
\* caught (RuntimeError is what a non-zero return code is turned into); a
\* timeout, a git that may not be executed or output that is no UTF-8 ends
\* the handler with the exception
diff_cmd(p, ref, staged, git, lang, o, export) ==
    LET output_lang == OutputLang(p, lang)
        stdout == Strip(ReadText(git.stdout))
        diff_text == IF Len(stdout) > MAX_CHARS
                     THEN SubSeq(stdout, 1, MAX_CHARS) \o Truncated ELSE stdout
        query == PyOr(ref, IF staged THEN Staged ELSE WorkingTree)
    IN  IF output_lang \notin LANGUAGE_NAMES
        THEN Exit(p, <<"validate_fail">>, 1)
        ELSE IF git.outcome = "FileNotFoundError"
        THEN Exit(p, <<"validate", "gather_fail">>, 1)
        ELSE IF git.outcome # "exit"
        THEN Crash(p, <<"validate", "gather_fail">>, git.outcome)
        ELSE IF git.returncode # 0
        THEN Exit(p, <<"validate", "gather_fail">>, 1)
        ELSE IF stdout = <<>>
        THEN Exit(p, <<"validate", "gather_empty">>, 0)
        ELSE After(<<"validate", "gather">>,
                   TryExplain(p, "diff", GitDiff \o query, output_lang,
                              Prompt("d", diff_text \o query, output_lang),
                              o, export, TRUE))

\* Patterns that suggest the content is an error/traceback
ERROR_PATTERNS ==
    <<<<"T", "r", "a", "c", "e", "b", "a", "c", "k", " ", "(", "m", "o",
       "s", "t", " ", "r", "e", "c", "e", "n", "t", " ", "c", "a", "l",
       "l", " ", "l", "a", "s", "t", ")">>,
      <<"E", "r", "r", "o", "r", ":">>,
      <<"E", "x", "c", "e", "p", "t", "i", "o", "n", ":">>,
      <<"e", "r", "r", "o", "r", ":">>,
      <<"F", "A", "T", "A", "L">>,
      <<"F", "A", "I", "L">>,
      <<"p", "a", "n", "i", "c", ":">>,
      <<"S", "e", "g", "m", "e", "n", "t", "a", "t", "i", "o", "n", " ",
       "f", "a", "u", "l", "t">>,
      <<"E", "C", "O", "N", "N", "R", "E", "F", "U", "S", "E", "D">>,
      <<"E", "N", "O", "E", "N", "T">>,
      <<"E", "P", "E", "R", "M">>,
      <<"e", "r", "r", "n", "o">>,
      <<"S", "y", "n", "t", "a", "x", "E", "r", "r", "o", "r">>,
      <<"T", "y", "p", "e", "E", "r", "r", "o", "r">>,
      <<"V", "a", "l", "u", "e", "E", "r", "r", "o", "r">>,
      <<"K", "e", "y", "E", "r", "r", "o", "r">>,
      <<"I", "n", "d", "e", "x", "E", "r", "r", "o", "r">>,
      <<"A", "t", "t", "r", "i", "b", "u", "t", "e", "E", "r", "r", "o",
       "r">>,
      <<"I", "m", "p", "o", "r", "t", "E", "r", "r", "o", "r">>,
      <<"M", "o", "d", "u", "l", "e", "N", "o", "t", "F", "o", "u", "n",
       "d", "E", "r", "r", "o", "r">>,
      <<"F", "i", "l", "e", "N", "o", "t", "F", "o", "u", "n", "d", "E",
       "r", "r", "o", "r">>,
      <<"P", "e", "r", "m", "i", "s", "s", "i", "o", "n", "E", "r", "r",
       "o", "r">>,
      <<"R", "u", "n", "t", "i", "m", "e", "E", "r", "r", "o", "r">>,
      <<"N", "u", "l", "l", "P", "o", "i", "n", "t", "e", "r", "E", "x",
       "c", "e", "p", "t", "i", "o", "n">>,
      <<"C", "l", "a", "s", "s", "N", "o", "t", "F", "o", "u", "n", "d",
       "E", "x", "c", "e", "p", "t", "i", "o", "n">>,
      <<"A", "r", "r", "a", "y", "I", "n", "d", "e", "x", "O", "u", "t",
       "O", "f", "B", "o", "u", "n", "d", "s", "E", "x", "c", "e", "p",
       "t", "i", "o", "n">>,
      <<"u", "n", "d", "e", "f", "i", "n", "e", "d", " ", "i", "s", " ",
       "n", "o", "t", " ", "a", " ", "f", "u", "n", "c", "t", "i", "o",
       "n">>,
      <<"C", "a", "n", "n", "o", "t", " ", "r", "e", "a", "d", " ", "p",
       "r", "o", "p", "e", "r", "t">>,
      <<"i", "s", " ", "n", "o", "t", " ", "d", "e", "f", "i", "n", "e",
       "d">>,
      <<"c", "o", "m", "m", "a", "n", "d", " ", "n", "o", "t", " ", "f",
       "o", "u", "n", "d">>,
      <<"N", "o", " ", "s", "u", "c", "h", " ", "f", "i", "l", "e", " ",
       "o", "r", " ", "d", "i", "r", "e", "c", "t", "o", "r", "y">>,
      <<"P", "e", "r", "m", "i", "s", "s", "i", "o", "n", " ", "d", "e",
       "n", "i", "e", "d">>>>

code_indicators ==
    <<<<"d", "e", "f", " ">>,
      <<"c", "l", "a", "s", "s", " ">>,
      <<"i", "m", "p", "o", "r", "t", " ">>,
      <<"f", "r", "o", "m", " ">>,
      <<"f", "u", "n", "c", "t", "i", "o", "n", " ">>,
      <<"c", "o", "n", "s", "t", " ">>,
      <<"l", "e", "t", " ">>,
      <<"v", "a", "r", " ">>,
      <<"f", "u", "n", "c", " ">>,
      <<"p", "a", "c", "k", "a", "g", "e", " ">>,
      <<"p", "u", "b", "l", "i", "c", " ">>,
      <<"p", "r", "i", "v", "a", "t", "e", " ">>,
      <<"s", "t", "a", "t", "i", "c", " ">>,
      <<"#", "i", "n", "c", "l", "u", "d", "e">>,
      <<"i", "n", "t", " ", "m", "a", "i", "n">>>>

\* pattern.lower() of every pattern
lowered_patterns == [k \in 1..Len(ERROR_PATTERNS) |-> Lower(ERROR_PATTERNS[k])]

\* error_score: one for every pair of a line and a pattern whose lower-cased
\* form is in the lower-cased line
error_score(lines) ==
    LET lowered == [i \in 1..Len(lines) |-> Lower(lines[i])]
    IN  Cardinality({m \in (1..Len(lines)) \X (1..Len(ERROR_PATTERNS)) :
                        Contains(lowered[m[1]], lowered_patterns[m[2]])})

\* code_score: one for every pair of a line and an indicator in it
code_score(lines) ==
    Cardinality({m \in (1..Len(lines)) \X (1..Len(code_indicators)) :
                    Contains(lines[m[1]], code_indicators[m[2]])})

\* as _detect_content_type below, without stripping the content first
_detect_content_typeNoStrip(text) ==
    LET lines == SplitLines(text)
    IN  IF lines = <<>> THEN "unknown"
        ELSE IF error_score(lines) > 0 /\ error_score(lines) * 20 > Len(lines)
        THEN "error"
        ELSE IF code_score(lines) > 0 /\ code_score(lines) * 10 > Len(lines)
        THEN "code"
        ELSE "auto"

\* as _detect_content_type below, with code looked for before errors
_detect_content_typeCodeFirst(text) ==
    LET lines == SplitLines(Strip(text))
    IN  IF lines = <<>> THEN "unknown"
        ELSE IF code_score(lines) > 0 /\ code_score(lines) * 10 > Len(lines)
        THEN "code"
        ELSE IF error_score(lines) > 0 /\ error_score(lines) * 20 > Len(lines)
        THEN "error"
        ELSE "auto"

\* as _detect_content_type below, with "code" only above one line in five
_detect_content_typeStrictCode(text) ==
    LET lines == SplitLines(Strip(text))
    IN  IF lines = <<>> THEN "unknown"
        ELSE IF error_score(lines) > 0 /\ error_score(lines) * 20 > Len(lines)
        THEN "error"
        ELSE IF code_score(lines) > 0 /\ code_score(lines) * 5 > Len(lines)
        THEN "code"
        ELSE "auto"

\* _detect_content_type: "unknown" for no lines, "error" when error_score
\* over the number of lines exceeds 0.05, "code" when code_score over it
\* exceeds 0.1, else "auto"
_detect_content_type(text) ==
    LET lines == SplitLines(Strip(text))
        errors == error_score(lines)
        code == code_score(lines)
    IN  IF lines = <<>> THEN "unknown"
        ELSE IF errors > 0 /\ errors * 20 > Len(lines) THEN "error"
        ELSE IF code > 0 /\ code * 10 > Len(lines) THEN "code"
        ELSE "auto"

Stdin(isatty, text) == [isatty |-> isatty, text |-> text]

Stdins == {Stdin(TRUE, <<>>), Stdin(FALSE, <<" ", "\n">>), Stdin(FALSE, <<"l", "s", "\n">>)}

\* _detect_content_type of what is piped in, worked out once for each stdin
detected_types == [s \in Stdins |-> _detect_content_type(Strip(s.text))]

\* xplain pipe: stdin is looked at before the language; the content type is
\* the one forced with --type, else the one detected
pipe_cmd(p, stdin, force_type, lang, o, export) ==
    LET content == Strip(stdin.text)
        output_lang == OutputLang(p, lang)
        content_type == IF PyTruthy(force_type) THEN force_type[1]
                        ELSE IF stdin \in Stdins THEN detected_types[stdin]
                        ELSE _detect_content_type(content)
        query_preview == IF Len(content) > QUERY_PREVIEW
                         THEN SubSeq(content, 1, QUERY_PREVIEW) ELSE content
    IN  IF stdin.isatty \/ content = <<>>
        THEN Exit(p, <<"gather_fail">>, 1)
        ELSE IF output_lang \notin LANGUAGE_NAMES
        THEN Exit(p, <<"gather", "validate_fail">>, 1)
        ELSE After(<<"gather", "validate">>,
                   TryExplain(p, "pipe", query_preview, output_lang,
                              Prompt(IF content_type = "error" THEN "e"
                                     ELSE IF content_type = "code" THEN "k"
                                     ELSE "a",
                                     content, output_lang),
                              o, export, TRUE))

Xplain == <<"x", "p", "l", "a", "i", "n">>

\* what stands for the output of a command that printed nothing
NoOutput ==
    <<"(", "n", "o", " ", "o", "u", "t", "p", "u", "t", " ",
      "c", "a", "p", "t", "u", "r", "e", "d", ")">>

\* timeout=15 of the subprocess.run in wtf_cmd
RERUN_TIMEOUT == 15

\* error_output[:2000] in wtf_cmd
ERROR_CHARS == 2000

TimedOut ==
    <<"(", "c", "o", "m", "m", "a", "n", "d", " ", "t", "i", "m", "e", "d", " ",
      "o", "u", "t", " ", "a", "f", "t", "e", "r", " ", "1", "5", "s", ")">>

\* what running the command again gives: subprocess.run raises outcome at
\* once (str(e) is error), or the command needs seconds to end with returncode
Rerun(outcome, seconds, returncode, stderr, stdout, error) ==
    [outcome |-> outcome, seconds |-> seconds, returncode |-> returncode,
     stderr |-> stderr, stdout |-> stdout, error |-> error]

\* exit_code after the try block around subprocess.run
ExitCode(rerun) ==
    IF rerun.outcome # "exit" \/ rerun.seconds > RERUN_TIMEOUT
    THEN 1 ELSE rerun.returncode

\* f"{last_cmd} (exit {exit_code})"
WithExit(last_cmd, exit_code) ==
    last_cmd \o <<" ", "(", "e", "x", "i", "t", " ">>
    \o Str(exit_code) \o <<")">>

\* as wtf_cmd, but the language is looked at after the command was run
wtf_cmdRunsFirst(p, last_cmd, rerun, lang, o, export) ==
    LET output_lang == OutputLang(p, lang)
    IN  IF ~TextTruthy(last_cmd) \/ StartsWith(last_cmd, Xplain)
        THEN Exit(p, <<"gather_fail">>, 1)
        ELSE IF output_lang \notin LANGUAGE_NAMES
        THEN Exit(p, <<"gather", "rerun", "validate_fail">>, 1)
        ELSE After(<<"gather", "rerun", "validate">>,
                   TryExplain(p, "wtf", WithExit(last_cmd, ExitCode(rerun)),
                              output_lang, Prompt("w", last_cmd, output_lang),
                              o, export, TRUE))

\* as wtf_cmd, but the command is waited for however long it takes
wtf_cmdWaits(p, last_cmd, rerun, lang, o, export) ==
    LET output_lang == OutputLang(p, lang)
        raised == rerun.outcome # "exit"
        exit_code == IF raised THEN 1 ELSE rerun.returncode
        stderr == IF raised THEN rerun.error ELSE Strip(ReadText(rerun.stderr))
        stdout == IF raised THEN <<>> ELSE Strip(ReadText(rerun.stdout))
        error_output == PyOr(stderr, PyOr(stdout, NoOutput))
    IN  IF output_lang \notin LANGUAGE_NAMES
        THEN Exit(p, <<"validate_fail">>, 1)
        ELSE IF ~TextTruthy(last_cmd) \/ StartsWith(last_cmd, Xplain)
        THEN Exit(p, <<"validate", "gather_fail">>, 1)
        ELSE IF exit_code = 0
        THEN After(<<"validate", "gather", "rerun">>,
                   TryExplain(p, "wtf", last_cmd, output_lang,
                              Prompt("c", last_cmd, output_lang),
                              o, export, FALSE))
        ELSE After(<<"validate", "gather", "rerun">>,
                   TryExplain(p, "wtf", WithExit(last_cmd, exit_code),
                              output_lang,
                              Prompt("w", last_cmd
                                          \o <<"#">> \o Str(exit_code) \o <<"#">>
                                          \o error_output,
                                     output_lang),
                              o, export, TRUE))

\* xplain wtf: the shell history's last command is run again for at most
\* RERUN_TIMEOUT seconds, its output read in text mode; a command that now
\* succeeds is explained with only CopilotCLIError caught, a failure is
\* diagnosed from its exit code and output
wtf_cmd(p, last_cmd, rerun, lang, o, export) ==
    LET output_lang == OutputLang(p, lang)
        raised == rerun.outcome # "exit"
        timed_out == ~raised /\ rerun.seconds > RERUN_TIMEOUT
        exit_code == ExitCode(rerun)
        stderr == IF raised THEN rerun.error
                  ELSE IF timed_out THEN TimedOut
                  ELSE Strip(ReadText(rerun.stderr))
        stdout == IF raised \/ timed_out THEN <<>>
                  ELSE Strip(ReadText(rerun.stdout))
        error_output == PyOr(stderr, PyOr(stdout, NoOutput))
        shown == IF Len(error_output) > ERROR_CHARS
                 THEN SubSeq(error_output, 1, ERROR_CHARS) ELSE error_output
    IN  IF output_lang \notin LANGUAGE_NAMES
        THEN Exit(p, <<"validate_fail">>, 1)
        ELSE IF ~TextTruthy(last_cmd) \/ StartsWith(last_cmd, Xplain)
        THEN Exit(p, <<"validate", "gather_fail">>, 1)
        ELSE IF exit_code = 0
        THEN After(<<"validate", "gather", "rerun">>,
                   TryExplain(p, "wtf", last_cmd, output_lang,
                              Prompt("c", last_cmd, output_lang),
                              o, export, FALSE))
        ELSE After(<<"validate", "gather", "rerun">>,
                   TryExplain(p, "wtf", WithExit(last_cmd, exit_code),
                              output_lang,
                              Prompt("w", last_cmd
                                          \o <<"#">> \o Str(exit_code) \o <<"#">>
                                          \o shown,
                                     output_lang),
                              o, export, TRUE))

\* what the store call c leaves in the process p
Stored(p, c) ==
    [p EXCEPT !.loaded = c.loaded, !.entries = c.entries, !.doc = c.doc]

\* xplain history: --clear, else --show N, else a search or a listing;
\* nothing is caught, and only a --show that finds no entry exits with 1.
\* show is <<>> for None and <<N>> for --show N.
history_cmd(p, search_text, show, limit, type_filter, clear_all, export) ==
    LET n == count(p.loaded, p.entries, p.doc)
        c == clear(n.loaded, n.entries, n.doc)
        g == get(p.loaded, p.entries, p.doc, show[1])
        found == IF TextTruthy(search_text)
                 THEN search(p.loaded, p.entries, p.doc, search_text, limit)
                 ELSE list_entries(p.loaded, p.entries, p.doc, limit, type_filter)
    IN  IF clear_all
        THEN IF n.result.status = "raise"
             THEN Crash(Stored(p, n), <<"count_raise">>, n.result.exc)
             ELSE IF c.result.status = "raise"
             THEN Crash(Stored(p, c), <<"count", "clear_raise">>, c.result.exc)
             ELSE Exit(Stored(p, c), <<"count", "clear">>, 0)
        ELSE IF show # <<>>
        THEN IF g.result.status = "raise"
             THEN Crash(Stored(p, g), <<"get_raise">>, g.result.exc)
             ELSE IF g.result.kind = "none"
             THEN Exit(Stored(p, g), <<"get", "validate_fail">>, 1)
             ELSE IF g.result.val[1].query = NullText
             THEN Crash(Stored(p, g), <<"get", "render_raise">>, "TypeError")
             ELSE IF export = "OSError"
             THEN Crash(Stored(p, g), <<"get", "render_raise">>, "OSError")
             ELSE Exit(Stored(p, g), <<"get", "render">>, 0)
        ELSE IF found.result.status = "raise"
        THEN Crash(Stored(p, found), <<"list_raise">>, found.result.exc)
        ELSE IF found.result.val = <<>>
        THEN Exit(Stored(p, found), <<"list", "none_found">>, 0)
        ELSE IF \E i \in 1..Len(found.result.val) :
                   found.result.val[i].query = NullText
        THEN Crash(Stored(p, found), <<"list", "render_raise">>, "AttributeError")
        ELSE Exit(Stored(p, found), <<"list", "render">>, 0)

\* the rows of the table of a listing: enumerate(reversed(entries)), numbered
\* from 1 in the '#' column
table(found) ==
    [i \in 1..Len(found) |-> [idx |-> i, entry |-> found[Len(found) - i + 1]]]

\* the table xplain history prints for a search or a listing that finds entries
history_rows(p, search_text, limit, type_filter) ==
    table((IF TextTruthy(search_text)
           THEN search(p.loaded, p.entries, p.doc, search_text, limit)
           ELSE list_entries(p.loaded, p.entries, p.doc, limit, type_filter)
          ).result.val)

NoSession == [active |-> FALSE, history |-> <<>>, output_lang |-> "en"]

\* xplain chat before its loop: no conversation, once the language is valid
chat(p, lang) ==
    LET output_lang == OutputLang(p, lang)
    IN  IF output_lang \notin LANGUAGE_NAMES
        THEN [session |-> NoSession, events |-> <<"validate_fail">>,
              exit_code |-> 1, uncaught |-> ""]
        ELSE [session |-> [active |-> TRUE, history |-> <<>>,
                           output_lang |-> output_lang],
              events |-> <<"validate">>, exit_code |-> -1, uncaught |-> ""]

\* what one pass of chat's loop leaves: exit_code -1 while the loop goes on
Turn(p, events, code, exc, s) ==
    [p |-> p, events |-> events, exit_code |-> code, uncaught |-> exc,
     session |-> s]

ExitCommands ==
    {<<"/", "e", "x", "i", "t">>, <<"/", "q", "u", "i", "t">>, <<"/", "q">>}

\* as chat_turn, but the question stays in the conversation when the call fails
chat_turnKeepsFailed(p, s, line, o, export) ==
    LET user_input == Strip(line.text)
        words == Words(user_input)
        command == Lower(words[1])
        new_lang == Lower(words[2])
        user == Message("user", user_input)
        r == Let(chat_with_copilot(p, user_input, Append(s.history, user),
                                   s.output_lang, o), LAMBDA x : x)
        q == [p EXCEPT !.cached = r.cached, !.http = r.http, !.reply = r.reply,
                       !.posts = r.posts, !.asks = r.asks, !.instance = r.instance,
                       !.ninstances = r.ninstances]
        a == add(p.loaded, p.entries, p.doc, p.now, "chat", user_input,
                 r.reply.text, s.output_lang, NoMeta)
        qa == [q EXCEPT !.loaded = a.loaded, !.entries = a.entries, !.doc = a.doc]
        asked == [s EXCEPT !.history = Append(@, user)]
        answered ==
            [s EXCEPT !.history =
                @ \o <<user, Message("assistant", r.reply.text)>>]
        ended == [s EXCEPT !.active = FALSE]
    IN  IF line.kind \in {"EOFError", "KeyboardInterrupt"}
        THEN Turn(p, <<"goodbye">>, 0, "", ended)
        ELSE IF user_input = <<>>
        THEN Turn(p, <<"blank">>, -1, "", s)
        ELSE IF StartsWith(user_input, <<"/">>)
        THEN IF command \in ExitCommands
             THEN Turn(p, <<"goodbye">>, 0, "", ended)
             ELSE IF command = <<"/", "h", "e", "l", "p">>
             THEN Turn(p, <<"help">>, -1, "", s)
             ELSE IF command = <<"/", "c", "l", "e", "a", "r">>
             THEN Turn(p, <<"clear">>, -1, "", [s EXCEPT !.history = <<>>])
             ELSE IF command = <<"/", "l", "a", "n", "g">>
             THEN IF Len(words) < 2
                  THEN Turn(p, <<"lang">>, -1, "", s)
                  ELSE IF \E code \in LANGUAGE_NAMES : Spelling[code] = new_lang
                  THEN Turn(p, <<"lang">>, -1, "",
                            [s EXCEPT !.output_lang =
                                CHOOSE code \in LANGUAGE_NAMES :
                                    Spelling[code] = new_lang])
                  ELSE Turn(p, <<"lang_unknown">>, -1, "", s)
             ELSE Turn(p, <<"unknown">>, -1, "", s)
        ELSE IF r.reply.status = "raise"
        THEN IF r.reply.exc \in CopilotCLIErrors
             THEN Turn(q, <<"backend_raise">>, -1, "", asked)
             ELSE Turn(q, <<"backend_raise">>, 1, r.reply.exc,
                       [asked EXCEPT !.active = FALSE])
        ELSE IF a.result.status = "raise"
        THEN Turn(qa, <<"backend_return", "add_raise">>, 1, a.result.exc,
                  [answered EXCEPT !.active = FALSE])
        ELSE IF export = "OSError"
        THEN Turn(qa, <<"backend_return", "add", "render_raise">>, 1,
                  "OSError", [answered EXCEPT !.active = FALSE])
        ELSE Turn(qa, <<"backend_return", "add", "render">>, -1, "", answered)

\* one pass of chat's loop over the line read from the terminal: the question
\* is appended before the call and popped only where CopilotCLIError is
\* caught, the answer is appended before it is stored and shown
chat_turn(p, s, line, o, export) ==
    LET user_input == Strip(line.text)
        words == Words(user_input)
        command == Lower(words[1])
        new_lang == Lower(words[2])
        user == Message("user", user_input)
        r == Let(chat_with_copilot(p, user_input, Append(s.history, user),
                                   s.output_lang, o), LAMBDA x : x)
        q == [p EXCEPT !.cached = r.cached, !.http = r.http, !.reply = r.reply,
                       !.posts = r.posts, !.asks = r.asks, !.instance = r.instance,
                       !.ninstances = r.ninstances]
        a == add(p.loaded, p.entries, p.doc, p.now, "chat", user_input,
                 r.reply.text, s.output_lang, NoMeta)
        qa == [q EXCEPT !.loaded = a.loaded, !.entries = a.entries, !.doc = a.doc]
        asked == [s EXCEPT !.history = Append(@, user)]
        answered ==
            [s EXCEPT !.history =
                @ \o <<user, Message("assistant", r.reply.text)>>]
        ended == [s EXCEPT !.active = FALSE]
    IN  IF line.kind \in {"EOFError", "KeyboardInterrupt"}
        THEN Turn(p, <<"goodbye">>, 0, "", ended)
        ELSE IF user_input = <<>>
        THEN Turn(p, <<"blank">>, -1, "", s)
        ELSE IF StartsWith(user_input, <<"/">>)
        THEN IF command \in ExitCommands
             THEN Turn(p, <<"goodbye">>, 0, "", ended)
             ELSE IF command = <<"/", "h", "e", "l", "p">>
             THEN Turn(p, <<"help">>, -1, "", s)
             ELSE IF command = <<"/", "c", "l", "e", "a", "r">>
             THEN Turn(p, <<"clear">>, -1, "", [s EXCEPT !.history = <<>>])
             ELSE IF command = <<"/", "l", "a", "n", "g">>
             THEN IF Len(words) < 2
                  THEN Turn(p, <<"lang">>, -1, "", s)
                  ELSE IF \E code \in LANGUAGE_NAMES : Spelling[code] = new_lang
                  THEN Turn(p, <<"lang">>, -1, "",
                            [s EXCEPT !.output_lang =
                                CHOOSE code \in LANGUAGE_NAMES :
                                    Spelling[code] = new_lang])
                  ELSE Turn(p, <<"lang_unknown">>, -1, "", s)
             ELSE Turn(p, <<"unknown">>, -1, "", s)
        ELSE IF r.reply.status = "raise"
        THEN IF r.reply.exc \in CopilotCLIErrors
             THEN Turn(q, <<"backend_raise">>, -1, "", s)
             ELSE Turn(q, <<"backend_raise">>, 1, r.reply.exc,
                       [asked EXCEPT !.active = FALSE])
        ELSE IF a.result.status = "raise"
        THEN Turn(qa, <<"backend_return", "add_raise">>, 1, a.result.exc,
                  [answered EXCEPT !.active = FALSE])
        ELSE IF export = "OSError"
        THEN Turn(qa, <<"backend_return", "add", "render_raise">>, 1,
                  "OSError", [answered EXCEPT !.active = FALSE])
        ELSE Turn(qa, <<"backend_return", "add", "render">>, -1, "", answered)

-----------------------------------------------------------------------------
(* Inputs of the store calls *)

\* XPLAIN_LANG is not set, or names a language there is none of
Configs == {[language |-> "en"], [language |-> "xx"]}

\* what is added: the type, the query with the explanation the backend gave
\* for it, and the language
Additions ==
    {<<"cmd", <<"D", "o">>, <<"x">>, "en">>,
     <<"error", <<"g">>, <<"g", "O">>, "vi">>,
     <<"cmd", <<"\"", "\\">>, <<"\n", "n">>, "en">>,
     <<"error", <<"D", "o">>, <<"x">>, "en">>}

Limits == {0, 1, 2}

TypeFilters == {NoneStr, Given(""), Given("cmd"), Given("None")}

SearchTexts == {<<>>, <<"d", "O">>, <<"G">>}

Indices == {0, 1, 2, MAX_ENTRIES, MAX_ENTRIES + 1}

\* the i-th entry of a document written by earlier runs
StoredEntry(i) ==
    HistoryEntry(i,
                 IF i % 2 = 0 THEN "cmd" ELSE "error",
                 IF i % 3 = 0 THEN <<"D", "o">> ELSE <<"g">>,
                 IF i % 5 = 0 THEN <<"g", "O">> ELSE <<"x">>,
                 IF i % 4 = 0 THEN "vi" ELSE "en",
                 MetaEmpty)

StoredDoc(n) == ArrayDoc([i \in 1..n |-> AsDict(StoredEntry(i))])

\* documents the loader does not accept, or accepts though ill-typed
BrokenDocs ==
    {OtherDoc(k) : k \in {"unreadable", "undecodable", "invalid", "scalar",
                          "object", "emptyobject"}}
    \cup {WriteOnlyDoc}
    \cup {ArrayDoc(<<AsDict(StoredEntry(1)), [keys |-> k, e |-> StoredEntry(2)]>>) :
            k \in {"missing", "extra", "notdict"}}

IllTypedDocs ==
    {ArrayDoc(<<AsDict([StoredEntry(1) EXCEPT !.query = NullText])>>),
     ArrayDoc(<<AsDict([StoredEntry(1) EXCEPT !.explanation = NullText])>>)}

InitDocs ==
    {OtherDoc("missing")}
    \cup {StoredDoc(n) : n \in 0..MaxSmallDoc}
    \cup {StoredDoc(MAX_ENTRIES - 1), StoredDoc(MAX_ENTRIES)}
    \cup {ArrayDoc(<<[keys |-> "required", e |-> StoredEntry(1)]>>)}
    \cup BrokenDocs \cup IllTypedDocs
    \cup {ReadOnly(StoredDoc(1))}

-----------------------------------------------------------------------------
(* The store's calls as actions *)

Call(op) == [NoCall EXCEPT !.op = op]

Apply(r) ==
    /\ loaded' = r.loaded
    /\ entries' = r.entries
    /\ doc' = r.doc
    /\ result' = r.result
    /\ UNCHANGED <<sideVars, toolVars, doc0, backendVars, handlerVars>>

Add ==
    /\ ncalls < MaxCalls
    /\ \E a \in Additions :
            /\ Apply(add(loaded, entries, doc, now, a[1], a[2], a[3], a[4],
                         NoMeta))
            /\ last' = [Call("add") EXCEPT !.ctype = a[1], !.query = a[2],
                            !.explanation = a[3], !.language = a[4]]
    /\ now' = now + 1
    /\ ncalls' = ncalls + 1

ListEntries ==
    /\ ncalls < MaxCalls
    /\ \E limit \in Limits, command_type \in TypeFilters :
            /\ Apply(list_entries(loaded, entries, doc, limit, command_type))
            /\ last' = [Call("list_entries") EXCEPT !.limit = limit,
                                                    !.ctype = command_type]
    /\ ncalls' = ncalls + 1
    /\ UNCHANGED now

Search ==
    /\ ncalls < MaxCalls
    /\ \E query \in SearchTexts, limit \in Limits :
            /\ Apply(search(loaded, entries, doc, query, limit))
            /\ last' = [Call("search") EXCEPT !.query = query, !.limit = limit]
    /\ ncalls' = ncalls + 1
    /\ UNCHANGED now

Get ==
    /\ ncalls < MaxCalls
    /\ \E index \in Indices :
            /\ Apply(get(loaded, entries, doc, index))
            /\ last' = [Call("get") EXCEPT !.index = index]
    /\ ncalls' = ncalls + 1
    /\ UNCHANGED now

Clear ==
    /\ ncalls < MaxCalls
    /\ Apply(clear(loaded, entries, doc))
    /\ last' = Call("clear")
    /\ ncalls' = ncalls + 1
    /\ UNCHANGED now

Count ==
    /\ ncalls < MaxCalls
    /\ Apply(count(loaded, entries, doc))
    /\ last' = Call("count")
    /\ ncalls' = ncalls + 1
    /\ UNCHANGED now

-----------------------------------------------------------------------------
(* Inputs of the backend calls *)

\* os.environ with none of the variables the program reads
NoEnviron ==
    [GH_TOKEN |-> NullText, GITHUB_TOKEN |-> NullText, XPLAIN_MODEL |-> NoneStr]

TokA == <<"a">>

TokB == <<"b">>

Environs ==
    [GH_TOKEN : {NullText, <<>>, TokA}, GITHUB_TOKEN : {NullText, TokB},
     XPLAIN_MODEL : {NoneStr}]

Helper(installed, outcome, stdout) ==
    [installed |-> installed, outcome |-> outcome, stdout |-> stdout]

Helpers ==
    {Helper(FALSE, "none", <<>>), Helper(TRUE, "fail", <<>>),
     Helper(TRUE, "raise", <<>>), Helper(TRUE, "ok", <<"\n">>),
     Helper(TRUE, "ok", <<"c", "\r", "d", "\r", "\n">>)}

ContentTexts == {<<" ", "h", "i", "\n">>, <<"h", "i">>, <<>>}

ErrorShapes == {"absent", "dict_message", "dict_plain", "string", "null"}

\* the bodies that are JSON objects, by how far choices[0].message.content goes
ObjectBodies ==
    UNION {
        {Body("object", e, c, "none", "none", "none", <<>>) :
            c \in {"absent", "null", "empty", "dict"}}
        \cup {Body("object", e, "list", "null", "none", "none", <<>>)}
        \cup {Body("object", e, "list", "object", m, "none", <<>>) :
            m \in {"absent", "null"}}
        \cup {Body("object", e, "list", "object", "object", c, <<>>) :
            c \in {"absent", "null", "number"}}
        \cup {Body("object", e, "list", "object", "object", "text", t) :
            t \in ContentTexts}
        : e \in ErrorShapes}

OtherBodies ==
    {Body(j, "absent", "absent", "none", "none", "none", <<>>) :
        j \in {"invalid", "scalar", "string", "list"}}

HttpOutcomes ==
    {Outcome(t, 0, NoBody) : t \in {"ConnectError", "ReadTimeout"}}
    \cup {Outcome("ok", 200, b) : b \in ObjectBodies \cup OtherBodies}
    \cup {Outcome("ok", c, b) : c \in {401, 500}, b \in OtherBodies}

SystemPrompts == {<<>>, <<"s">>}

Prompts == {<<"h", "i">>}

MessageLists ==
    {<<Message("user", <<"g">>)>>,
     <<Message("system", <<"s">>), Message("user", <<"h", "i">>)>>}

-----------------------------------------------------------------------------
(* The backend's calls as actions *)

ApplyAsk(r) ==
    /\ cached_token' = r.cached
    /\ http' = r.http
    /\ reply' = r.reply
    /\ posts' = r.posts
    /\ nasks' = nasks + 1
    /\ UNCHANGED <<sideVars, toolVars, environ, helper, backend_instance, selected_model,
                   ninstances, got, nlookups, storeVars, handlerVars>>

AskMessages ==
    /\ nasks < MaxAsks
    /\ \E messages \in MessageLists, o \in HttpOutcomes :
          ApplyAsk(ask_messages(cached_token, environ, helper, messages, o))

Ask ==
    /\ nasks < MaxAsks
    /\ \E prompt \in Prompts, system_prompt \in SystemPrompts, o \in HttpOutcomes :
          ApplyAsk(ask(cached_token, environ, helper, prompt, system_prompt, o))

\* what a lookup gave: a token, a truth value or a backend, or an error
Lookup(op, token, value, backend, raised, read_env, ran_helper) ==
    [op |-> op, token |-> token, value |-> value, backend |-> backend,
     raised |-> raised, read_env |-> read_env, ran_helper |-> ran_helper]

NoLookup == Lookup("none", NullText, FALSE, NoInstance, "", FALSE, FALSE)

\* the backend before any call: nothing cached, nothing sent
BackendIdle ==
    /\ cached_token = NullText
    /\ http = NoHttp
    /\ reply = NoReply
    /\ posts = 0
    /\ backend_instance = NoInstance
    /\ selected_model = NoneStr
    /\ ninstances = 0
    /\ nasks = 0
    /\ got = NoLookup
    /\ nlookups = 0

NoRun ==
    [handler |-> "none", lang |-> NoneStr, input |-> <<>>, events |-> <<>>,
     exit_code |-> -1, uncaught |-> ""]

\* no command has run and no chat is open
HandlerIdle ==
    /\ session = NoSession
    /\ run = NoRun
    /\ nruns = 0

NoExport ==
    [content |-> <<>>, filepath |-> <<>>, title |-> <<>>, writable |-> TRUE,
     called |-> FALSE, raised |-> ""]

\* no text has been classified
ToolIdle ==
    /\ piped = <<>>
    /\ detected = "none"
    /\ exporting = NoExport
    /\ written = NullText

\* a process that has not touched its HistoryStore
NoProc == [pc |-> "idle", loaded |-> FALSE, entries |-> <<>>]

Procs == {1, 2, 3}

\* no second writer, and no table printed
SideIdle ==
    /\ procs = [i \in Procs |-> NoProc]
    /\ completed = {}
    /\ listing = <<>>
    /\ tldr_mode = FALSE

\* the store before any call, with no document
StoreIdle ==
    /\ loaded = FALSE
    /\ entries = <<>>
    /\ doc = OtherDoc("missing")
    /\ doc0 = doc
    /\ now = MAX_ENTRIES + 1
    /\ ncalls = 0
    /\ last = NoCall
    /\ result = Returned("none", <<>>, 0)

BackendInit ==
    /\ BackendIdle
    /\ environ \in Environs
    /\ helper \in Helpers
    /\ StoreIdle
    /\ config \in Configs
    /\ HandlerIdle
    /\ ToolIdle
    /\ SideIdle

BackendNext == AskMessages \/ Ask

BackendSpec == BackendInit /\ [][BackendNext]_vars

-----------------------------------------------------------------------------
(* Token resolution and backend selection as actions *)

\* the models --model names
ModelNames == {"openai/gpt-4.1", "deepseek/DeepSeek-R1"}

\* what set_model is called with: a name, or no model (None, or "")
Models == {Given(m) : m \in ModelNames} \cup {NoneStr, Given("")}

LookupEnvirons ==
    {NoEnviron,
     [NoEnviron EXCEPT !.GH_TOKEN = TokA, !.GITHUB_TOKEN = TokB,
                       !.XPLAIN_MODEL = Given("openai/gpt-4o")],
     [NoEnviron EXCEPT !.GH_TOKEN = <<>>, !.GITHUB_TOKEN = TokB,
                       !.XPLAIN_MODEL = Given("None")]}

LookupHelpers ==
    {Helper(FALSE, "none", <<>>), Helper(TRUE, "fail", <<>>),
     Helper(TRUE, "ok", <<"\n">>), Helper(TRUE, "ok", <<"c", "\r", "d", "\r", "\n">>)}

Looked ==
    /\ nlookups' = nlookups + 1
    /\ UNCHANGED <<sideVars, toolVars, http, reply, posts, nasks, storeVars, handlerVars>>

\* a call of _get_github_token()
GetToken ==
    /\ nlookups < MaxLookups
    /\ LET t == _get_github_token(cached_token, environ, helper)
       IN  /\ cached_token' = t.cached
           /\ got' = Lookup("_get_github_token", t.token, FALSE, NoInstance, "",
                            t.read_env, t.ran_helper)
    /\ Looked
    /\ UNCHANGED <<sideVars, toolVars, environ, helper, backend_instance, selected_model, ninstances>>

\* a call of is_available() on a backend
IsAvailable ==
    /\ nlookups < MaxLookups
    /\ LET a == is_available(cached_token, environ, helper)
           t == _get_github_token(cached_token, environ, helper)
       IN  /\ cached_token' = a.cached
           /\ got' = Lookup("is_available", NullText, a.value, NoInstance, "",
                            t.read_env, t.ran_helper)
    /\ Looked
    /\ UNCHANGED <<sideVars, toolVars, environ, helper, backend_instance, selected_model, ninstances>>

\* a call of get_backend(), which is _select_backend()
GetBackend ==
    /\ nlookups < MaxLookups
    /\ LET b == _select_backend(backend_instance, selected_model, ninstances,
                                cached_token, environ, helper)
       IN  /\ cached_token' = b.cached
           /\ backend_instance' = b.instance
           /\ ninstances' = b.ninstances
           /\ got' = Lookup("get_backend", NullText, b.available, b.backend,
                            IF b.available THEN "" ELSE "BackendNotAvailableError",
                            FALSE, FALSE)
    /\ Looked
    /\ UNCHANGED <<sideVars, toolVars, environ, helper, selected_model>>

\* a call of set_model(model)
SetModel ==
    /\ nlookups < MaxLookups
    /\ \E model \in Models :
          LET r == set_model(backend_instance, selected_model, model)
          IN  /\ backend_instance' = r.instance
              /\ selected_model' = r.selected
              /\ got' = Lookup("set_model", NullText, FALSE, NoInstance, "",
                               FALSE, FALSE)
    /\ Looked
    /\ UNCHANGED <<sideVars, toolVars, cached_token, environ, helper, ninstances>>

\* get_backend().model = value
SetBackendModel ==
    /\ nlookups < MaxLookups
    /\ backend_instance # NoInstance
    /\ \E value \in ModelNames \ {backend_instance.model} :
          backend_instance' = model_setter(backend_instance, value)
    /\ got' = [NoLookup EXCEPT !.op = "model"]
    /\ Looked
    /\ UNCHANGED <<cached_token, environ, helper, selected_model, ninstances>>

\* a call of set_tldr_mode(enabled)
SetTldrMode ==
    /\ nlookups < MaxLookups
    /\ \E enabled \in BOOLEAN \ {tldr_mode} : tldr_mode' = set_tldr_mode(enabled)
    /\ got' = [NoLookup EXCEPT !.op = "set_tldr_mode"]
    /\ nlookups' = nlookups + 1
    /\ UNCHANGED <<procs, completed, listing, toolVars, storeVars, handlerVars,
                   cached_token, environ, helper, http, reply, posts,
                   backend_instance, selected_model, ninstances, nasks>>

\* the environment variables change while the process runs
SetEnviron ==
    /\ nlookups < MaxLookups
    /\ \E e \in LookupEnvirons \ {environ} : environ' = e
    /\ got' = Lookup("environ", NullText, FALSE, NoInstance, "", FALSE, FALSE)
    /\ Looked
    /\ UNCHANGED <<sideVars, toolVars, cached_token, helper, backend_instance, selected_model,
                   ninstances>>

\* what `gh auth token` would answer changes while the process runs
SetHelper ==
    /\ nlookups < MaxLookups
    /\ \E h \in LookupHelpers \ {helper} : helper' = h
    /\ got' = Lookup("helper", NullText, FALSE, NoInstance, "", FALSE, FALSE)
    /\ Looked
    /\ UNCHANGED <<sideVars, toolVars, cached_token, environ, backend_instance, selected_model,
                   ninstances>>

\* the network refuses the request of a lookup run, or answers it
LookupOutcomes ==
    {Outcome("ConnectError", 0, NoBody),
     Outcome("ok", 200, Body("object", "absent", "list", "object", "object", "text",
                             <<"h", "i">>))}

\* ask_messages on the backend that get_backend() returned
AskBackend ==
    /\ nlookups < MaxLookups
    /\ backend_instance # NoInstance
    /\ \E o \in LookupOutcomes :
          \E r \in {ask_messages(cached_token, environ, helper,
                                 <<Message("user", <<"h", "i">>)>>, o)} :
              /\ cached_token' = r.cached
              /\ http' = r.http
              /\ posts' = r.posts
              /\ reply' = r.reply
              /\ got' = Lookup("ask", NullText, FALSE, backend_instance,
                               r.reply.exc, FALSE, FALSE)
    /\ nlookups' = nlookups + 1
    /\ UNCHANGED <<sideVars, toolVars, storeVars, handlerVars, environ, helper,
                   backend_instance, selected_model, ninstances, nasks>>

\* the process as the lookups left it
LookupProcess ==
    [Process(cached_token, loaded, entries, doc, environ, helper, config, now)
        EXCEPT !.instance = backend_instance, !.selected = selected_model,
               !.ninstances = ninstances, !.tldr = tldr_mode]

\* a call of ask_copilot(prompt)
AskCopilot ==
    /\ nlookups < MaxLookups
    /\ \E o \in LookupOutcomes :
          \E r \in {ask_copilot(LookupProcess, <<"h", "i">>, o)} :
              /\ cached_token' = r.cached
              /\ http' = r.http
              /\ posts' = r.posts
              /\ reply' = r.reply
              /\ backend_instance' = r.instance
              /\ ninstances' = r.ninstances
              /\ got' = Lookup("ask_copilot", NullText, FALSE, r.instance,
                               r.reply.exc, FALSE, FALSE)
    /\ nlookups' = nlookups + 1
    /\ UNCHANGED <<sideVars, toolVars, storeVars, handlerVars, environ, helper,
                   selected_model, nasks>>

LookupInit ==
    /\ BackendIdle
    /\ environ \in LookupEnvirons
    /\ helper \in LookupHelpers
    /\ StoreIdle
    /\ config \in Configs
    /\ HandlerIdle
    /\ ToolIdle
    /\ SideIdle

LookupNext ==
    GetToken \/ IsAvailable \/ GetBackend \/ SetModel \/ SetEnviron \/ SetHelper
    \/ AskBackend \/ SetBackendModel \/ SetTldrMode \/ AskCopilot

LookupSpec == LookupInit /\ [][LookupNext]_vars

\* HistoryStore.__init__: nothing loaded, whatever document is on disk
Init ==
    /\ loaded = FALSE
    /\ entries = <<>>
    /\ doc \in InitDocs
    /\ doc0 = doc
    /\ now = MAX_ENTRIES + 1
    /\ ncalls = 0
    /\ last = NoCall
    /\ result = Returned("none", <<>>, 0)
    /\ BackendIdle
    /\ environ = NoEnviron
    /\ helper = Helper(FALSE, "none", <<>>)
    /\ config \in Configs
    /\ HandlerIdle
    /\ ToolIdle
    /\ SideIdle

Next == Add \/ ListEntries \/ Search \/ Get \/ Clear \/ Count

Spec == Init /\ [][Next]_vars

-----------------------------------------------------------------------------
(* Processes adding to one history.json *)

\* add() calls started so far
Started ==
    Cardinality(completed) + Cardinality({i \in Procs : procs[i].pc # "idle"})

\* add(), first part: entries = self._load() reads the document unless the
\* process holds the list already
AddLoad(i) ==
    /\ procs[i].pc = "idle"
    /\ Started < MaxAdds
    /\ \E l \in {_load(procs[i].loaded, procs[i].entries, doc)} :
          /\ ~l.raised
          /\ procs' = [procs EXCEPT ![i] = [pc |-> "adding", loaded |-> TRUE,
                                            entries |-> l.entries]]
    /\ UNCHANGED <<storeVars, backendVars, handlerVars, toolVars, completed,
                   listing, tldr_mode>>

\* the file as open(path, "w") leaves it: no bytes, which is no JSON
EmptyFile == OtherDoc("empty")

\* the file after a text was written over a longer one: the rest of the
\* longer one follows it, which is no JSON; the file is as long as the text
\* of these items, the longer one, was
TornFile(longer) == [kind |-> "invalid", items |-> longer, writable |-> TRUE]

\* add(), second part: the entry is appended to the list that was read,
\* _save() trims the list, and write_text opens the document, which empties it
AddOpen(i) ==
    /\ procs[i].pc = "adding"
    /\ \E a \in {add(TRUE, procs[i].entries, doc, now, "cmd", <<"l", "s">>,
                      <<"h", "i">>, "en", NoMeta)} :
          /\ a.result.status = "ok"
          /\ procs' = [procs EXCEPT ![i] = [pc |-> "writing", loaded |-> a.loaded,
                                            entries |-> a.entries]]
    /\ doc' = EmptyFile
    /\ now' = now + 1
    /\ UNCHANGED <<loaded, entries, doc0, ncalls, last, result, backendVars,
                   handlerVars, toolVars, completed, listing, tldr_mode>>

\* what the file is after the text of ents was written from its start: that
\* text when the file held no more bytes, else that text and the rest of what
\* the file holds, which other processes wrote since the file was opened,
\* whole or torn already. A text of more entries is longer; of two texts of
\* as many entries either may be, their timestamps being written with the
\* digits they have
Landings(ents, d) ==
    IF Len(d.items) < Len(ents) THEN {SaveDoc(ents)}
    ELSE IF Len(d.items) > Len(ents) THEN {TornFile(d.items)}
    ELSE {SaveDoc(ents), TornFile(d.items)}

\* add(), last part: write_text writes the text and add() returns
AddWrite(i) ==
    /\ procs[i].pc = "writing"
    /\ doc' \in Landings(procs[i].entries, doc)
    /\ procs' = [procs EXCEPT ![i].pc = "idle"]
    /\ completed' =
          completed \cup {procs[i].entries[Len(procs[i].entries)].timestamp}
    /\ UNCHANGED <<loaded, entries, now, doc0, ncalls, last, result, backendVars,
                   handlerVars, toolVars, listing, tldr_mode>>

\* the process ends; the next command is a new process with nothing loaded
ProcessExit(i) ==
    /\ procs[i].pc = "idle"
    /\ procs[i].loaded
    /\ procs' = [procs EXCEPT ![i] = NoProc]
    /\ UNCHANGED <<storeVars, backendVars, handlerVars, toolVars, completed,
                   listing, tldr_mode>>

RaceInit ==
    /\ loaded = FALSE
    /\ entries = <<>>
    /\ doc \in {OtherDoc("missing"), OtherDoc("invalid"), StoredDoc(1), StoredDoc(2)}
    /\ doc0 = doc
    /\ now = MAX_ENTRIES + 1
    /\ ncalls = 0
    /\ last = NoCall
    /\ result = Returned("none", <<>>, 0)
    /\ BackendIdle
    /\ environ = NoEnviron
    /\ helper = Helper(FALSE, "none", <<>>)
    /\ config \in Configs
    /\ HandlerIdle
    /\ ToolIdle
    /\ SideIdle

RaceNext ==
    \E i \in Procs : AddLoad(i) \/ AddOpen(i) \/ AddWrite(i) \/ ProcessExit(i)

RaceSpec == RaceInit /\ [][RaceNext]_vars

-----------------------------------------------------------------------------
(* Inputs of the handlers *)

LangOptions == {NoneStr, Given("vi"), Given("xx"), Given("None")}

\* the backing documents a handler may find
HandlerDocs ==
    {OtherDoc("missing"), OtherDoc("undecodable"), ReadOnly(StoredDoc(1))}

HandlerEnvirons ==
    {NoEnviron,
     [NoEnviron EXCEPT !.GH_TOKEN = TokA]}

Installation(d, env, hlp, cfg) ==
    [doc |-> d, environ |-> env, helper |-> hlp, config |-> cfg]

\* where a command is run: on each of the documents, with a token in the
\* environment or none anywhere; on no document yet, with a gh that prints
\* no token, and with an XPLAIN_LANG that names no language
Installations ==
    {Installation(d, env, Helper(FALSE, "none", <<>>), [language |-> "en"]) :
        d \in HandlerDocs, env \in HandlerEnvirons}
    \cup {Installation(OtherDoc("missing"), NoEnviron,
                       Helper(TRUE, "ok", <<"\n">>), [language |-> "en"]),
          Installation(OtherDoc("missing"), [NoEnviron EXCEPT !.GH_TOKEN = TokA],
                       Helper(FALSE, "none", <<>>), [language |-> "xx"])}

\* the network refuses the call, answers with no JSON, or answers
HandlerOutcomes ==
    {Outcome("ok", 401, Body("invalid", "absent", "absent", "none", "none", "none", <<>>)),
     Outcome("ok", 200, Body("invalid", "absent", "absent", "none", "none", "none", <<>>)),
     Outcome("ok", 200, Body("object", "absent", "list", "object", "object", "text",
                             <<" ", "h", "i", "\n">>))}

\* print_explanation's export to the --output file works or raises
Exports == {"ok", "OSError"}

\* print_explanation is reached only with an answer that has a text
ExportsAfter(o) ==
    IF o.status_code = 200 /\ o.body.content = "text" THEN Exports ELSE {"ok"}

\* a name too long for a file
LongName == [i \in 1..(NAME_MAX + 1) |-> "x"]

\* --file: not given, a file that is not there, a file, a name too long
ContextFiles == {NullText, <<"n">>, <<"f">>, LongName}

\* xplain error is run with each of the files, and with --lang without a file
ErrorArgs ==
    {<<file, NoneStr>> : file \in ContextFiles}
    \cup {<<NullText, lang>> : lang \in LangOptions}

\* the code argument, --lines and the stdin the command is run with: nothing
\* given on a terminal, an empty stdin, lines that are no range, a range of a
\* file, a file that may not be read, a directory, and two snippets that hold
\* a name too long: in a directory, and in a directory that is not there
CodeInputs ==
    {<<NullText, NullText, Stdin(TRUE, <<>>)>>,
     <<<<"-">>, NullText, Stdin(FALSE, <<"\n">>)>>,
     <<<<"f">>, <<"2">>, Stdin(TRUE, <<>>)>>,
     <<<<"d", "/", "f">>, <<"2", "-", "3">>, Stdin(TRUE, <<>>)>>,
     <<<<"s">>, NullText, Stdin(TRUE, <<>>)>>,
     <<<<"d">>, NullText, Stdin(TRUE, <<>>)>>,
     <<<<"d", "/">> \o LongName, NullText, Stdin(TRUE, <<>>)>>,
     <<<<"n", "/">> \o LongName, NullText, Stdin(TRUE, <<>>)>>}

\* xplain code is run on each of these, and with --lang on the lines of a file
CodeArgs ==
    {<<i, NoneStr>> : i \in CodeInputs}
    \cup {<<<<<<"d", "/", "f">>, <<"2", "-", "3">>, Stdin(TRUE, <<>>)>>, lang>> :
             lang \in LangOptions}

Git(outcome, returncode, stdout) ==
    [outcome |-> outcome, returncode |-> returncode, stdout |-> stdout]

GitRuns ==
    {Git("FileNotFoundError", 0, <<>>), Git("TimeoutExpired", 0, <<>>),
     Git("PermissionError", 0, <<>>), Git("UnicodeDecodeError", 0, <<>>),
     Git("exit", 1, <<>>),
     Git("exit", 0, <<"\n">>), Git("exit", 0, <<"d", "\r", "e", "\r", "\n">>)}

\* xplain diff --staged is run on each outcome of git, and with --lang where
\* git shows a diff
DiffArgs ==
    {<<NullText, TRUE, git, NoneStr>> : git \in GitRuns}
    \cup {<<NullText, TRUE, Git("exit", 0, <<"d", "\r", "e", "\r", "\n">>), lang>> :
             lang \in LangOptions}

ForceTypes == {Given("error"), NoneStr}

\* xplain pipe is run on each stdin with and without --type, and with --lang
\* on a command piped in
PipeArgs ==
    {<<stdin, force_type, NoneStr>> : stdin \in Stdins, force_type \in ForceTypes}
    \cup {<<Stdin(FALSE, <<"l", "s", "\n">>), NoneStr, lang>> : lang \in LangOptions}

LastCommands == {NullText, Xplain \o <<" ", "w", "t", "f">>, <<"l", "s">>}

\* the command fails with a message
FailedRerun == Rerun("exit", 1, 2, <<"e", "\r", "\n", "r", "\n">>, <<>>, <<>>)

\* the command succeeds, or fails with a message
Reruns == {Rerun("exit", 1, 0, <<>>, <<"o", "\n">>, <<>>), FailedRerun}

\* xplain wtf is run after each of the last commands doing each of reruns, and
\* with --lang after a command that fails
WtfArgs(reruns) ==
    {<<last_cmd, rerun, NoneStr>> : last_cmd \in LastCommands, rerun \in reruns}
    \cup {<<<<"l", "s">>, FailedRerun, lang>> : lang \in LangOptions}

\* and also: it takes too long, it cannot be started, it fails silently or
\* with its message on stdout, it ends just in time
AllReruns ==
    Reruns \cup
    {Rerun("exit", RERUN_TIMEOUT + 1, 0, <<>>, <<"o", "\n">>, <<>>),
     Rerun("exit", RERUN_TIMEOUT, 0, <<>>, <<>>, <<>>),
     Rerun("OSError", 0, 0, <<>>, <<>>, <<"E">>),
     Rerun("exit", 1, 1, <<" ">>, <<"o", "\n">>, <<>>),
     Rerun("exit", 1, 1, <<>>, <<>>, <<>>),
     Rerun("exit", 1, 127, <<"e", "\r", "f", "\n">>, <<>>, <<>>)}

HistoryArgs(search_text, show, limit, type_filter, clear_all) ==
    [search |-> search_text, show |-> show, limit |-> limit,
     type_filter |-> type_filter, clear |-> clear_all]

HistoryArgsSet ==
    {HistoryArgs(NullText, <<>>, 20, NoneStr, TRUE),
     HistoryArgs(NullText, <<1>>, 20, NoneStr, FALSE),
     HistoryArgs(NullText, <<0>>, 20, NoneStr, FALSE),
     HistoryArgs(<<"g">>, <<>>, 20, NoneStr, FALSE),
     HistoryArgs(NullText, <<>>, 20, Given("cmd"), FALSE)}

Line(kind, text) == [kind |-> kind, text |-> text]

Lines ==
    {Line("EOFError", <<>>), Line("text", <<" ">>), Line("text", <<"/", "q">>),
     Line("text", <<"/", "l", "a", "n", "g", " ", "v", "i">>),
     Line("text", <<"/", "l", "a", "n", "g", " ", "X", "X">>),
     Line("text", <<"h", "i", " ">>)}

\* and also: the other slash commands, a second question
AllLines ==
    Lines \cup
    {Line("text", <<"/", "C", "l", "e", "a", "r">>),
     Line("text", <<"/", "h", "e", "l", "p">>),
     Line("text", <<"/", "l", "a", "n", "g">>),
     Line("text", <<"/", "l", "a", "n", "g", " ", "E", "N">>),
     Line("text", <<"/", "x">>),
     Line("text", <<"y">>)}

-----------------------------------------------------------------------------
(* The handlers as actions *)

\* the backend calls of a run, in order
BackendEvents(r) ==
    SelectSeq(r.events, LAMBDA e : e \in {"backend_raise", "backend_return"})

\* what a run leaves to be seen; lang is the --lang it was given (of a chat
\* line, the language of the chat; NoneStr without the option), input is what
\* it was given to work on (kept for wtf and chat, <<>> otherwise)
Ran(handler, lang, input, r) ==
    [handler |-> handler, lang |-> lang, input |-> input,
     events |-> r.events, exit_code |-> r.exit_code, uncaught |-> r.uncaught]

NoInput == <<>>

\* the network's answer with a text
Answered ==
    CHOOSE o \in HandlerOutcomes : o.status_code = 200 /\ o.body.content = "text"

\* the runs of a handler on one input: what the network answers and whether
\* the export works make a difference only to a run that posts its request
Runs(Run(_, _)) ==
    Let(Run(Answered, "ok"), LAMBDA first :
        IF first.p.posts = 0 THEN {first}
        ELSE {first} \cup
             {Run(x[1], x[2]) :
                 x \in {y \in UNION {{<<o, export>> : export \in ExportsAfter(o)} :
                                       o \in HandlerOutcomes} :
                            y # <<Answered, "ok">>}})

\* the process started for one command: nothing cached, nothing loaded
NewProcess ==
    Process(NullText, FALSE, <<>>, doc, environ, helper, config, now)

\* the process of the open chat
ChatProcess ==
    [Process(cached_token, loaded, entries, doc, environ, helper, config, now)
        EXCEPT !.instance = backend_instance, !.selected = selected_model,
               !.ninstances = ninstances, !.tldr = tldr_mode]

\* a command's process ends: its document stays, its memory goes
Finish(handler, lang, input, r) ==
    /\ \E x \in {r} :
          /\ doc' = x.p.doc
          /\ http' = x.p.http
          /\ reply' = x.p.reply
          /\ posts' = x.p.posts
          /\ nasks' = x.p.asks
          /\ run' = Ran(handler, lang, input, x)
    /\ nruns' = nruns + 1
    /\ now' = now + 1
    /\ UNCHANGED <<sideVars, toolVars, loaded, entries, cached_token, session, doc0, ncalls, last,
                   result, environ, helper, config, backend_instance,
                   selected_model, ninstances, got, nlookups>>

Cmd ==
    /\ nruns < MaxRuns
    /\ \E lang \in LangOptions :
          \E r \in Runs(LAMBDA o, export :
                            cmd(NewProcess, <<"l", "s">>, lang, o, export)) :
              Finish("cmd", lang, NoInput, r)

ErrorCmd ==
    /\ nruns < MaxRuns
    /\ \E a \in ErrorArgs :
          \E r \in Runs(LAMBDA o, export :
                            error_cmd(NewProcess, <<"E">>, NullText, a[1], a[2],
                                      o, export)) :
              Finish("error", a[2], NoInput, r)

CodeCmd ==
    /\ nruns < MaxRuns
    /\ \E a \in CodeArgs :
          \E r \in Runs(LAMBDA o, export :
                            code_cmd(NewProcess, a[1][1], a[1][2], a[1][3], a[2],
                                     o, export)) :
              Finish("code", a[2], NoInput, r)

DiffCmd ==
    /\ nruns < MaxRuns
    /\ \E a \in DiffArgs :
          \E r \in Runs(LAMBDA o, export :
                            diff_cmd(NewProcess, a[1], a[2], a[3], a[4], o, export)) :
              Finish("diff", a[4], NoInput, r)

PipeCmd ==
    /\ nruns < MaxRuns
    /\ \E a \in PipeArgs :
          \E r \in Runs(LAMBDA o, export :
                            pipe_cmd(NewProcess, a[1], a[2], a[3], o, export)) :
              Finish("pipe", a[3], NoInput, r)

\* xplain wtf, with the last command doing one of reruns when run again
Wtf(reruns) ==
    /\ nruns < MaxRuns
    /\ \E a \in WtfArgs(reruns) :
          \E r \in Runs(LAMBDA o, export :
                            wtf_cmd(NewProcess, a[1], a[2], a[3], o, export)) :
              Finish("wtf", a[3],
                     IF \E i \in 1..Len(r.events) : r.events[i] = "rerun"
                     THEN <<a[1], a[2]>> ELSE NoInput,
                     r)

WtfCmd == Wtf(Reruns)

HistoryCmd ==
    /\ nruns < MaxRuns
    /\ \E a \in HistoryArgsSet, export \in Exports :
          Finish("history", NoneStr, NoInput,
                 history_cmd(NewProcess, a.search, a.show, a.limit,
                                        a.type_filter, a.clear, export))

\* xplain chat is started: a new process, and a session if the language is valid
ChatStart ==
    /\ ~session.active
    /\ nruns < MaxRuns
    /\ \E lang \in LangOptions :
          \E r \in {chat(NewProcess, lang)} :
              /\ session' = r.session
              /\ run' = Ran("chat", lang, NoInput, r)
    /\ loaded' = FALSE
    /\ entries' = <<>>
    /\ cached_token' = NullText
    /\ http' = NoHttp
    /\ reply' = NoReply
    /\ posts' = 0
    /\ nasks' = 0
    /\ backend_instance' = NoInstance
    /\ ninstances' = 0
    /\ UNCHANGED <<sideVars, toolVars, doc, nruns, now, doc0, ncalls, last, result, environ, helper,
                   config, selected_model, got, nlookups>>

\* the open chat reads one of lines, the turns-th line at most; when the loop
\* ends, so does the process
Chat(lines, turns) ==
    /\ session.active
    /\ nruns < turns
    /\ \E line \in lines :
          \E r \in Runs(LAMBDA o, export :
                            chat_turn(ChatProcess, session, line, o, export)) :
              /\ doc' = r.p.doc
              /\ http' = r.p.http
              /\ reply' = r.p.reply
              /\ posts' = r.p.posts
              /\ nasks' = r.p.asks
              /\ session' = r.session
              /\ run' = Ran("chat", Given(session.output_lang),
                            IF BackendEvents(r) # <<>>
                            THEN <<Strip(line.text)>> ELSE NoInput,
                            r)
              /\ loaded' = (r.session.active /\ r.p.loaded)
              /\ entries' = IF r.session.active THEN r.p.entries ELSE <<>>
              /\ cached_token' = IF r.session.active THEN r.p.cached ELSE NullText
              /\ backend_instance' =
                    IF r.session.active THEN r.p.instance ELSE NoInstance
              /\ ninstances' = IF r.session.active THEN r.p.ninstances ELSE 0
    /\ nruns' = nruns + 1
    /\ now' = now + 1
    /\ UNCHANGED <<sideVars, toolVars, doc0, ncalls, last, result, environ, helper, config,
                   selected_model, got, nlookups>>

ChatTurn == Chat(Lines, MaxRuns)

HandlerInit ==
    /\ loaded = FALSE
    /\ entries = <<>>
    /\ \E i \in Installations :
          /\ doc = i.doc
          /\ environ = i.environ
          /\ helper = i.helper
          /\ config = i.config
    /\ doc0 = doc
    /\ now = MAX_ENTRIES + 1
    /\ ncalls = 0
    /\ last = NoCall
    /\ result = Returned("none", <<>>, 0)
    /\ BackendIdle
    /\ HandlerIdle
    /\ ToolIdle
    /\ SideIdle

HandlerNext ==
    Cmd \/ ErrorCmd \/ CodeCmd \/ DiffCmd \/ PipeCmd \/ WtfCmd
    \/ HistoryCmd \/ ChatStart \/ ChatTurn

HandlerSpec == HandlerInit /\ [][HandlerNext]_vars

\* the listings asked for: plain, cut short, of one type, searched
ListArgs ==
    {HistoryArgs(NullText, <<>>, 20, NoneStr, FALSE),
     HistoryArgs(NullText, <<>>, 1, NoneStr, FALSE),
     HistoryArgs(NullText, <<>>, 20, Given("cmd"), FALSE),
     HistoryArgs(NullText, <<>>, 20, Given("error"), FALSE),
     HistoryArgs(<<"g">>, <<>>, 20, NoneStr, FALSE)}

\* xplain history prints a table
HistoryList ==
    /\ \E a \in ListArgs :
          /\ history_cmd(NewProcess, a.search, a.show, a.limit, a.type_filter,
                         a.clear, "ok").events = <<"list", "render">>
          /\ listing' = history_rows(NewProcess, a.search, a.limit, a.type_filter)
    /\ UNCHANGED <<storeVars, backendVars, handlerVars, toolVars, procs, completed,
                   tldr_mode>>

\* a store on a small document, or on none
ListInit ==
    /\ loaded = FALSE
    /\ entries = <<>>
    /\ doc \in {OtherDoc("missing")} \cup {StoredDoc(n) : n \in 0..MaxSmallDoc}
    /\ doc0 = doc
    /\ now = MAX_ENTRIES + 1
    /\ ncalls = 0
    /\ last = NoCall
    /\ result = Returned("none", <<>>, 0)
    /\ BackendIdle
    /\ environ = NoEnviron
    /\ helper = Helper(FALSE, "none", <<>>)
    /\ config \in Configs
    /\ HandlerIdle
    /\ ToolIdle
    /\ SideIdle

\* the store is added to, and listed by xplain history
ListNext == Add \/ HistoryList

ListSpec == ListInit /\ [][ListNext]_vars

\* xplain chat alone, with every kind of line
ChatAny == Chat(AllLines, MaxTurns)

ChatNext == ChatStart \/ ChatAny

ChatSpec == HandlerInit /\ [][ChatNext]_vars

\* xplain wtf alone, with everything the command can do when run again
WtfAny == Wtf(AllReruns)

WtfNext == WtfAny

WtfSpec == HandlerInit /\ [][WtfNext]_vars

-----------------------------------------------------------------------------
(* Export of an explanation to a file *)

\* Path(filepath).suffix: what follows the last dot of the final component,
\* unless that dot is its first or its last character
suffix(filepath) ==
    LET pathname == PathName(filepath)
        i == LastIndexOf(pathname, ".")
    IN  IF 1 < i /\ i < Len(pathname)
        THEN SubSeq(pathname, i, Len(pathname)) ELSE <<>>

\* the characters of codes 1 to 31, in order
ControlChars ==
    <<"", "", "", "", "", "", "", "",
      "\t", "\n", "", "\f", "\r", "", "", "",
      "", "", "", "", "", "", "", "",
      "", "", "", "", "", "", "">>

HexChars ==
    <<"0", "1", "2", "3", "4", "5", "6", "7", "8", "9", "a", "b", "c", "d", "e", "f">>

ControlSet == {ControlChars[i] : i \in 1..Len(ControlChars)}

\* the code of a control character
Code(c) == CHOOSE i \in 1..Len(ControlChars) : ControlChars[i] = c

\* one character inside a JSON string, as json.dumps writes it with
\* ensure_ascii=False: a short escape or \u00XX for the quote, the backslash
\* and the control characters, every other character as it is
EscapeChar(c) ==
    CASE c = "\"" -> <<"\\", "\"">>
      [] c = "\\" -> <<"\\", "\\">>
      [] c = "\n" -> <<"\\", "n">>
      [] c = "\r" -> <<"\\", "r">>
      [] c = "\t" -> <<"\\", "t">>
      [] c = "\f" -> <<"\\", "f">>
      [] c = ControlChars[8] -> <<"\\", "b">>
      [] OTHER ->
            IF c \in ControlSet
            THEN <<"\\", "u", "0", "0", HexChars[(Code(c) \div 16) + 1],
                   HexChars[(Code(c) % 16) + 1]>>
            ELSE <<c>>

RECURSIVE Escape(_)
Escape(t) == IF t = <<>> THEN <<>> ELSE EscapeChar(Head(t)) \o Escape(Tail(t))

Quoted(t) == <<"\"">> \o Escape(t) \o <<"\"">>

\* json.dumps({"title": title, "content": content}, indent=2,
\* ensure_ascii=False)
dumps(title, content) ==
    <<"{", "\n", " ", " ">> \o Quoted(<<"t", "i", "t", "l", "e">>) \o <<":", " ">>
    \o Quoted(title) \o <<",", "\n", " ", " ">>
    \o Quoted(<<"c", "o", "n", "t", "e", "n", "t">>)
    \o <<":", " ">> \o Quoted(content) \o <<"\n", "}">>

\* as export_explanation below, with the suffix compared as it is written
export_explanationCaseSensitive(content, filepath, title) ==
    LET ext == suffix(filepath)
    IN  IF ext = <<".", "j", "s", "o", "n">>
        THEN dumps(title, content)
        ELSE IF ext \in {<<".", "m", "d">>, <<".", "m", "a", "r", "k", "d", "o", "w", "n">>}
        THEN <<"#", " ">> \o title \o <<"\n", "\n">> \o content \o <<"\n">>
        ELSE content \o <<"\n">>

\* export_explanation: the text written to the path
export_explanation(content, filepath, title) ==
    LET ext == Lower(suffix(filepath))
    IN  IF ext = <<".", "j", "s", "o", "n">>
        THEN dumps(title, content)
        ELSE IF ext \in {<<".", "m", "d">>, <<".", "m", "a", "r", "k", "d", "o", "w", "n">>}
        THEN <<"#", " ">> \o title \o <<"\n", "\n">> \o content \o <<"\n">>
        ELSE content \o <<"\n">>

ExportPaths ==
    {<<"a", ".", "j", "s", "o", "n">>,
     <<"a", ".", "j", "s", "o", "n", "/">>,
     <<"b", ".", "m", "d", "/", ".">>,
     <<"a", ".", "J", "S", "O", "N">>,
     <<"b", ".", "m", "d">>,
     <<"b", ".", "M", "d">>,
     <<"b", ".", "m", "a", "r", "k", "d", "o", "w", "n">>,
     <<"b", ".", "M", "A", "R", "K", "D", "O", "W", "N">>,
     <<"c", ".", "t", "x", "t">>,
     <<"c">>,
     <<".", "j", "s", "o", "n">>,
     <<".", "m", "d">>,
     <<"a", ".", "j", "s", "o", "n", "/", "c">>,
     <<"d", "/", "a", ".", "j", "s", "o", "n">>,
     <<"c", ".">>,
     <<"a", ".", "m", "d", ".", "j", "s", "o", "n">>,
     <<"a", ".", "j", "s", "o", "n", ".", "m", "d">>,
     <<"a", ".", "j", "s", "o", "n", "l">>,
     <<"a", ".", "m", "d", "x">>}

ExportTitles == {<<"T">>, <<"\"", "t", "\"">>, <<"a", "\\", "b">>}

ExportContents ==
    {<<>>,
     <<"h", "i">>,
     <<"a", "\n", "b">>,
     <<"s", "a", "y", " ", "\"", "x", "\"">>,
     <<"c", ":", "\\", "n">>,
     <<"\t", "a", "\r", ControlChars[1], ControlChars[8], "\f", ControlChars[31]>>,
     <<"#", " ", "h", "\n">>}

\* export_explanation is called: the text is written to the path, or
\* write_text raises and nothing is written
Export ==
    /\ ~exporting.called
    /\ IF exporting.writable
       THEN /\ written' = export_explanation(exporting.content, exporting.filepath,
                                             exporting.title)
            /\ exporting' = [exporting EXCEPT !.called = TRUE]
       ELSE /\ written' = written
            /\ exporting' = [exporting EXCEPT !.called = TRUE, !.raised = "OSError"]
    /\ UNCHANGED <<piped, detected, storeVars, backendVars, handlerVars, sideVars>>

ExportInit ==
    /\ BackendIdle
    /\ environ = NoEnviron
    /\ helper = Helper(FALSE, "none", <<>>)
    /\ StoreIdle
    /\ config \in Configs
    /\ HandlerIdle
    /\ piped = <<>>
    /\ detected = "none"
    /\ exporting \in [content : ExportContents, filepath : ExportPaths,
                       title : ExportTitles, writable : BOOLEAN,
                       called : {FALSE}, raised : {""}]
    /\ written = NullText
    /\ SideIdle

ExportNext == Export

ExportSpec == ExportInit /\ [][ExportNext]_vars

-----------------------------------------------------------------------------
(* The classifier of piped text, applied to blocks of lines *)

MaxPlainLines == 24
MaxErrorLines == 1
MaxCodeLines == 2
MaxBlankLines == 1

\* a line of a listing, with no marker in it
PlainLine == <<"o", "k">>

\* a line with one error pattern in it, in another case than the pattern's
FatalLine == <<"f", "a", "t", "a", "l">>

\* a line in which two error patterns are found
ErrorLine == <<"E", "r", "r", "o", "r", ":", " ", "x">>

\* a line with one code indicator in it
CodeLine == <<"d", "e", "f", " ", "f">>

RECURSIVE Repeat(_, _)
Repeat(line, n) == IF n = 0 THEN <<>> ELSE <<line>> \o Repeat(line, n - 1)

\* the text of a block of lines, padded with white space or not
Block(codes, fatals, blanks, plains, errors, padded) ==
    LET text == Join(Repeat(CodeLine, codes) \o Repeat(FatalLine, fatals)
                     \o Repeat(<<>>, blanks) \o Repeat(PlainLine, plains)
                     \o Repeat(ErrorLine, errors))
    IN  IF padded THEN <<" ", "\n">> \o text \o <<"\n", " ">> ELSE text

Blocks ==
    {Block(c, f, b, p, e, w) :
        c \in 0..MaxCodeLines, f \in 0..MaxErrorLines, b \in 0..MaxBlankLines,
        p \in 0..MaxPlainLines, e \in 0..MaxErrorLines, w \in BOOLEAN}

Detect ==
    /\ detected = "none"
    /\ detected' = _detect_content_type(piped)
    /\ UNCHANGED <<piped, exporting, written, storeVars, backendVars, handlerVars,
                   sideVars>>

DetectInit ==
    /\ BackendIdle
    /\ environ = NoEnviron
    /\ helper = Helper(FALSE, "none", <<>>)
    /\ StoreIdle
    /\ config \in Configs
    /\ HandlerIdle
    /\ piped \in Blocks
    /\ detected = "none"
    /\ exporting = NoExport
    /\ written = NullText
    /\ SideIdle

DetectNext == Detect

DetectSpec == DetectInit /\ [][DetectNext]_vars

-----------------------------------------------------------------------------
(* Claims about the history store *)

\* what the store holds: the cached list, or what a first access would load
View == _load(loaded, entries, doc)

ReadOps == {"list_entries", "search", "get", "count"}

\* entry e carries the arguments recorded in call c
Carries(e, c) ==
    /\ e.command_type = c.ctype
    /\ e.query = c.query
    /\ e.explanation = c.explanation
    /\ e.language = c.language

\* C1: a get(1) made right after an add that returned yields the entry that
\* add made: its command_type, query, explanation and language are the
\* arguments of the add and its timestamp is the add's. After every add that
\* returned, the first of a store or one that follows others, get(1) is that
\* addition, also when the add trimmed the list.
C1_GetAfterAdd ==
    [][/\ (/\ last.op = "add" /\ result.status = "ok"
           /\ last'.op = "get" /\ last'.index = 1)
          => (/\ result'.status = "ok"
              /\ result'.kind = "entry"
              /\ Carries(result'.val[1], last)
              /\ result'.val[1].timestamp = now - 1)
       /\ (last'.op = "add" /\ result'.status = "ok")
          => LET g == get(loaded', entries', doc', 1).result
             IN  /\ g.status = "ok"
                 /\ g.kind = "entry"
                 /\ Carries(g.val[1], last')
                 /\ g.val[1].timestamp = now]_vars

\* get(1) after two adds in a row, the second on a loaded store and trimming
\* it: the entry returned is the second addition, the first is next to it
C1_Witness ==
    /\ last.op = "get" /\ last.index = 1
    /\ ncalls = 3
    /\ result.kind = "entry"
    /\ result.val[1].timestamp = now - 1
    /\ Len(entries) = MAX_ENTRIES
    /\ entries[MAX_ENTRIES] = result.val[1]
    /\ entries[MAX_ENTRIES - 1].timestamp = now - 2
    /\ entries[1] = StoredEntry(2)
    /\ doc0 = StoredDoc(MAX_ENTRIES - 1)

\* C2: on a store of n entries get(index) returns the entry at insertion
\* position n - index + 1 when 1 <= index <= n, and None otherwise.
C2_GetByIndex ==
    (last.op = "get" /\ result.status = "ok") =>
        LET n == Len(entries)
        IN  IF 1 <= last.index /\ last.index <= n
            THEN result.kind = "entry" /\ result.val = <<entries[n - last.index + 1]>>
            ELSE result.kind = "none" /\ result.val = <<>>

C2_Witness ==
    /\ last.op = "get" /\ last.index = 2
    /\ Len(entries) = MAX_ENTRIES
    /\ result.val = <<StoredEntry(MAX_ENTRIES - 1)>>

\* C3: no call leaves more than MAX_ENTRIES entries, count() never exceeds
\* MAX_ENTRIES, and an add on a full store drops exactly the oldest entry and
\* keeps the others in order, in memory and in the rewritten document (which
\* is the list written out wherever the document can be read at all).
C3_TrimOldest ==
    [][/\ Len(entries') <= MAX_ENTRIES
       /\ (last'.op = "count" /\ result'.status = "ok") => result'.n <= MAX_ENTRIES
       /\ (last'.op = "add" /\ result'.status = "ok") =>
            /\ doc'.kind # "unreadable" => doc' = SaveDoc(entries')
            /\ Len(View.entries) = MAX_ENTRIES =>
                 /\ Len(entries') = MAX_ENTRIES
                 /\ SubSeq(entries', 1, MAX_ENTRIES - 1)
                        = SubSeq(View.entries, 2, MAX_ENTRIES)
                 /\ Carries(entries'[MAX_ENTRIES], last')]_vars

C3_Witness ==
    /\ last.op = "add" /\ result.status = "ok"
    /\ Len(entries) = MAX_ENTRIES
    /\ entries[1] = StoredEntry(2)
    /\ entries[MAX_ENTRIES - 1] = StoredEntry(MAX_ENTRIES)
    /\ doc = SaveDoc(entries)

\* C4: after clear(), whatever the store and its document were, count() is
\* 0, list_entries and search return nothing, get(k) returns None for every
\* k, and the document has been rewritten as an empty array. (On a document
\* that write_text may not replace, clear raises and the document stays.)
C4_ClearEmpties ==
    last.op = "clear" =>
        /\ result.status = "ok"
        /\ doc = ArrayDoc(<<>>)
        /\ count(loaded, entries, doc).result = Returned("count", <<>>, 0)
        /\ \A limit \in Limits, t \in TypeFilters :
             list_entries(loaded, entries, doc, limit, t).result
                 = Returned("list", <<>>, 0)
        /\ \A q \in SearchTexts, limit \in Limits :
             search(loaded, entries, doc, q, limit).result
                 = Returned("list", <<>>, 0)
        /\ \A k \in Indices :
             get(loaded, entries, doc, k).result = Returned("none", <<>>, 0)

\* the last min(limit, Len(seq)) items of seq
LastOf(seq, limit) ==
    SubSeq(seq, Len(seq) - Min(limit, Len(seq)) + 1, Len(seq))

\* C5: for a limit >= 0, list_entries(limit, type) returns the last
\* min(limit, k) of the k entries whose command_type equals the filter (all
\* entries when no filter is given), oldest first, never more than limit.
C5_ListWindow ==
    (last.op = "list_entries" /\ result.status = "ok" /\ last.limit >= 0) =>
        LET f == IF last.ctype = NoneStr THEN entries
                 ELSE SelectSeq(entries, LAMBDA e : e.command_type = last.ctype[1])
        IN  /\ result.val = LastOf(f, last.limit)
            /\ Len(result.val) <= last.limit

\* C6: for a limit >= 0, search(query, limit) returns at most limit entries:
\* the most recent ones whose lowercased query or explanation contains the
\* lowercased search text, oldest first.
C6_SearchWindow ==
    (last.op = "search" /\ result.status = "ok" /\ last.limit >= 0) =>
        LET m == SelectSeq(entries, LAMBDA e :
                    \/ Contains(Lower(e.query), Lower(last.query))
                    \/ Contains(Lower(e.explanation), Lower(last.query)))
        IN  /\ result.val = LastOf(m, last.limit)
            /\ Len(result.val) <= last.limit

\* a document that is missing, unreadable, not JSON, or not an array of
\* well-shaped entry objects
Corrupt(d) == d \in {OtherDoc("missing")} \cup BrokenDocs \cup IllTypedDocs

\* C7: whatever the document is on first access, the call does not raise and
\* the store behaves as if it were empty.
C7_CorruptIsEmpty ==
    (ncalls = 1 /\ Corrupt(doc0)) =>
        /\ result.status = "ok"
        /\ last.op = "count" => result.n = 0
        /\ last.op \in {"list_entries", "search", "get"} => result.val = <<>>
        /\ last.op = "add" => Len(entries) = 1
        /\ last.op = "clear" => entries = <<>>

\* after is before with one entry appended and the oldest entries beyond
\* MAX_ENTRIES dropped
KeptAndAppended(before, after) ==
    LET dropped == Max(0, Len(before) + 1 - MAX_ENTRIES)
    IN  /\ Len(after) = Len(before) + 1 - dropped
        /\ SubSeq(after, 1, Len(after) - 1)
               = SubSeq(before, dropped + 1, Len(before))

\* C9: list_entries, search, get and count change neither what the store
\* holds nor the document; an add that returns keeps the earlier entries that
\* the trim does not drop, unmodified and in order, and only appends; an add
\* that raises leaves the document alone and alters no earlier entry.
C9_AppendOnly ==
    [][/\ last'.op \in ReadOps =>
            /\ View' = View
            /\ doc' = doc
       /\ (last'.op = "add" /\ result'.status = "ok") =>
            KeptAndAppended(View.entries, entries')
       /\ (last'.op = "add" /\ result'.status = "raise") =>
            /\ doc' = doc
            /\ View' = View \/ KeptAndAppended(View.entries, entries')]_vars

C9_Witness ==
    /\ last.op = "search" /\ result.status = "ok"
    /\ ncalls = 2
    /\ Len(entries) = 3
    /\ entries[1] = StoredEntry(1) /\ entries[2] = StoredEntry(2)
    /\ entries[3].timestamp > MAX_ENTRIES
    /\ doc = SaveDoc(entries)

-----------------------------------------------------------------------------
(* Claims about the backend *)

\* an HTTP 200 whose body is a JSON object with choices[0].message.content
SuccessShape(o) ==
    /\ o.transport = "ok" /\ o.status_code = 200
    /\ o.body.json = "object" /\ o.body.choices = "list"
    /\ o.body.first = "object" /\ o.body.message = "object"
    /\ o.body.content # "absent"

\* C10: whenever the response to the request is anything but an HTTP 200
\* whose body is a JSON object holding choices[0].message.content,
\* ask_messages raises CopilotCLIError with a diagnostic: no other exception
\* type, no returned text.
C10_BackendErrorOnly ==
    (http.sent /\ http.transport = "ok" /\ ~SuccessShape(http)) =>
        /\ reply.status = "raise"
        /\ reply.exc = "CopilotCLIError"
        /\ reply.diag # ""

-----------------------------------------------------------------------------
(* Claims about the handlers *)

Happened(r, events) == \E i \in 1..Len(r.events) : r.events[i] \in events

\* C8: in every handler, a request whose validation fails, whose input
\* gathering fails or whose backend call raises leaves the history store as
\* it was (the document, and the store object of a process that lives on);
\* in cmd, error, code, diff, pipe, chat and wtf the document changes only in
\* a request whose backend call returned.
C8_AddOnlyAfterBackend ==
    [][/\ Happened(run', {"validate_fail", "gather_fail", "backend_raise"}) =>
            /\ doc' = doc
            /\ session'.active => (loaded' = loaded /\ entries' = entries)
       /\ (/\ run'.handler # "history"
           /\ doc' # doc \/ (entries' # entries /\ session'.active)) =>
            /\ Happened(run', {"backend_return"})
            /\ reply'.status = "return"]_vars

\* a failed backend call has left alone the document an earlier request wrote
C8_Witness ==
    /\ Happened(run, {"backend_raise"})
    /\ run.handler = "wtf"
    /\ doc.kind = "array"
    /\ doc # doc0

\* whether the environment or gh gives a token that is not empty
TokenAtHand ==
    \/ TextTruthy(environ.GH_TOKEN)
    \/ TextTruthy(environ.GITHUB_TOKEN)
    \/ /\ helper.installed
       /\ helper.outcome = "ok"
       /\ \E i \in 1..Len(helper.stdout) : helper.stdout[i] \notin Whitespace

\* C11 as stated: no backend call is retried. A handler run, or a line of the
\* chat, makes at most one backend call, each ask_messages invocation issues
\* exactly one HTTP request, and after a call that raised the run has issued
\* no further request.
C11_OneRequestPerCall ==
    [][/\ Len(BackendEvents(run')) <= 1
       /\ nasks' <= Len(BackendEvents(run'))
       /\ posts' = nasks'
       /\ Happened(run', {"backend_raise"}) =>
            run'.events[Len(run'.events)] = "backend_raise"]_vars

\* C11: no backend call is retried. A handler run, or a line of the chat,
\* makes at most one backend call and with it at most one ask_messages
\* invocation; the invocation issues exactly one HTTP request when its token
\* is not empty, and none when it is, raising BackendNotAvailableError; after
\* a call that raised, the run has issued no further request.
C11_NoRetry ==
    [][/\ Len(BackendEvents(run')) <= 1
       /\ nasks' <= Len(BackendEvents(run'))
       /\ posts' = (IF nasks' = 1 /\ TokenAtHand THEN 1 ELSE 0)
       /\ http'.sent <=> posts' = 1
       /\ (nasks' = 1 /\ posts' = 0) =>
            (reply'.exc = "BackendNotAvailableError" /\ http' = NoHttp)
       /\ Happened(run', {"backend_raise"}) =>
            run'.events[Len(run'.events)] = "backend_raise"]_vars

\* a request was sent, the server refused it, and the run ended there
C11_Witness ==
    /\ Happened(run, {"backend_raise"})
    /\ http.sent
    /\ http.status_code = 401
    /\ nasks = 1
    /\ posts = 1

-----------------------------------------------------------------------------
(* Claims about token resolution and backend selection *)

\* the model of a backend constructed with no model named: XPLAIN_MODEL, or
\* the default
FallbackModel(env) ==
    IF env.XPLAIN_MODEL # NoneStr THEN env.XPLAIN_MODEL[1] ELSE "openai/gpt-4o-mini"

HasModel(backend, model) ==
    /\ backend.model = model
    /\ \E i \in 1..Len(name(backend)) : name(backend)[i] = model

\* C12 as stated: a get_backend() that succeeds right after set_model(m)
\* returns a backend whose model is m and whose name contains m, whatever m is.
C12_ModelIsArgument ==
    [][(got.op = "set_model" /\ got'.op = "get_backend" /\ got'.raised = "")
          => /\ selected_model # NoneStr
             /\ HasModel(got'.backend, selected_model[1])]_vars

\* C12: once set_model(m) has been called, the next get_backend() that
\* succeeds (the one that finds no backend constructed) returns a backend
\* whose model is m and whose name contains m when m names a model, and
\* whose model is XPLAIN_MODEL, or the default without it, when m is None or
\* empty; this whether or not a backend was constructed before the
\* set_model. While no set_model intervenes, get_backend() keeps returning
\* the one constructed backend.
C12_ModelSelected ==
    [][/\ (got'.op = "get_backend" /\ got'.raised = "") =>
            /\ backend_instance = NoInstance =>
                  IF PyTruthy(selected_model)
                  THEN HasModel(got'.backend, selected_model[1])
                  ELSE HasModel(got'.backend, FallbackModel(environ))
            /\ backend_instance # NoInstance => got'.backend = backend_instance
            /\ backend_instance' = got'.backend
       /\ got'.op = "set_model" =>
            /\ selected_model' \in Models
            /\ backend_instance' = NoInstance]_vars

\* after a backend for a named model, set_model("") and the next backend is
\* one for the model of XPLAIN_MODEL
C12_Witness ==
    /\ got.op = "get_backend"
    /\ got.raised = ""
    /\ got.backend.id = 2
    /\ selected_model = Given("")
    /\ got.backend.model = "openai/gpt-4o"
    /\ backend_instance = got.backend

\* what os.environ offers: GH_TOKEN, or else GITHUB_TOKEN
EnvironToken(env) == PyOr(env.GH_TOKEN, env.GITHUB_TOKEN)

TokenLookups == {"_get_github_token", "is_available"}

\* C13: a token lookup with nothing cached takes the environment's token if
\* one is set and runs the credential helper only if none is; once a token is
\* cached, every later lookup returns it without reading the environment or
\* running the helper, whatever they would answer by then.
C13_TokenCachedForGood ==
    [][got'.op \in TokenLookups =>
         /\ cached_token # NullText =>
               /\ cached_token' = cached_token
               /\ ~got'.read_env /\ ~got'.ran_helper
               /\ got'.op = "_get_github_token" => got'.token = cached_token
               /\ got'.op = "is_available" => got'.value
         /\ cached_token = NullText =>
               /\ got'.read_env
               /\ TextTruthy(EnvironToken(environ)) =>
                     /\ ~got'.ran_helper
                     /\ cached_token' = EnvironToken(environ)
               /\ got'.ran_helper => ~TextTruthy(EnvironToken(environ))
               /\ (~TextTruthy(EnvironToken(environ)) /\ helper.installed) =>
                     got'.ran_helper]_vars

\* the token first resolved is still returned after the environment changed
C13_Witness ==
    /\ got.op = "_get_github_token"
    /\ got.token = <<"c", "\n", "d">>
    /\ ~got.read_env
    /\ EnvironToken(environ) = TokA
    /\ helper # Helper(TRUE, "ok", <<"c", "\r", "d", "\r", "\n">>)

\* a token can be resolved: the one cached is not empty, or with nothing
\* cached the environment has one, or gh is installed and `gh auth token`
\* exits with 0 and prints more than white space
CanResolve(cached, env, hlp) ==
    IF cached # NullText THEN cached # <<>>
    ELSE \/ TextTruthy(EnvironToken(env))
         \/ /\ hlp.installed /\ hlp.outcome = "ok"
            /\ \E i \in 1..Len(hlp.stdout) : hlp.stdout[i] \notin Whitespace

\* C14: is_available() is true exactly when a token can be resolved, and
\* get_backend() raises BackendNotAvailableError exactly when none can; a
\* get_backend() that raised has kept no backend, so the next one decides
\* afresh and succeeds once a token can be resolved.
C14_AvailableIffToken ==
    [][/\ got'.op = "is_available" =>
            (got'.value <=> CanResolve(cached_token, environ, helper))
       /\ (got'.op = "get_backend" /\ backend_instance = NoInstance) =>
            /\ (got'.raised = "BackendNotAvailableError")
                  <=> ~CanResolve(cached_token, environ, helper)
            /\ got'.raised \in {"", "BackendNotAvailableError"}
            /\ got'.raised # "" =>
                  /\ backend_instance' = NoInstance
                  /\ got'.backend = NoInstance
            /\ got'.raised = "" => got'.backend # NoInstance]_vars

\* the lines the classifier looks at, and how many of them hold a marker
ClassifiedLines == SplitLines(Strip(piped))

HasErrorMarker(line) ==
    \E j \in 1..Len(ERROR_PATTERNS) :
        Contains(Lower(line), Lower(ERROR_PATTERNS[j]))

HasCodeMarker(line) ==
    \E j \in 1..Len(code_indicators) : Contains(line, code_indicators[j])

ErrorLineCount ==
    Cardinality({i \in 1..Len(ClassifiedLines) :
                    HasErrorMarker(ClassifiedLines[i])})

CodeLineCount ==
    Cardinality({i \in 1..Len(ClassifiedLines) :
                    HasCodeMarker(ClassifiedLines[i])})

Classified == detected # "none" /\ Len(ClassifiedLines) > 0

\* C15: text that is empty or all white space is classified "unknown"; text
\* with a line that is not blank is classified "error", "code" or "auto".
C15_UnknownIffBlank ==
    detected # "none" =>
        IF \A i \in 1..Len(piped) : piped[i] \in Whitespace
        THEN detected = "unknown"
        ELSE detected \in {"error", "code", "auto"}

\* white space alone was classified
C15_Witness ==
    /\ detected = "unknown"
    /\ Len(piped) > 2

\* C16: a block in which at least 6% of the lines hold an error pattern, in
\* whatever case, is classified "error", however many lines hold code
\* indicators.
C16_ErrorFirst ==
    (Classified /\ ErrorLineCount * 100 >= 6 * Len(ClassifiedLines)) =>
        detected = "error"

\* one line in seven holds an error pattern in lower case and two in seven
\* hold a code indicator
C16_Witness ==
    /\ detected = "error"
    /\ Len(ClassifiedLines) = 7
    /\ ErrorLineCount = 1
    /\ CodeLineCount = 2
    /\ \E i \in 1..7 : ClassifiedLines[i] = FatalLine

\* C17: a block with no error pattern in any line is classified "code" when
\* at least 11% of its lines hold a code indicator and "auto" when none does.
C17_CodeOrAuto ==
    (Classified /\ ErrorLineCount = 0) =>
        /\ CodeLineCount * 100 >= 11 * Len(ClassifiedLines) => detected = "code"
        /\ CodeLineCount = 0 => detected = "auto"

\* one line in nine holds a code indicator
C17_Witness ==
    /\ detected = "code"
    /\ ErrorLineCount = 0
    /\ CodeLineCount = 1
    /\ Len(ClassifiedLines) = 9

\* C18: a block is classified "error" only if the lines holding at least one
\* error pattern are more than 0.05 of its lines, a line counting once.
C18_ErrorCountsLines ==
    (Classified /\ detected = "error") =>
        ErrorLineCount * 20 > Len(ClassifiedLines)

\* a reader of JSON documents that are objects with string members
Unread == [ok |-> FALSE, value |-> <<>>, next |-> 0]

RECURSIVE SkipSpace(_, _)
SkipSpace(t, i) ==
    IF i <= Len(t) /\ t[i] \in {" ", "\t", "\n", "\r"} THEN SkipSpace(t, i + 1) ELSE i

\* the value of a hexadecimal digit, -1 for any other character
HexValue(c) ==
    IF \E i \in 1..16 : Lower(<<c>>) = <<HexChars[i]>>
    THEN (CHOOSE i \in 1..16 : Lower(<<c>>) = <<HexChars[i]>>) - 1
    ELSE -1

\* the character a \uXXXX escape at t[i..i+5] stands for, of those the
\* writer above produces: <<>> for any other
Unescaped(t, i) ==
    LET code == HexValue(t[i + 4]) * 16 + HexValue(t[i + 5])
    IN  IF /\ i + 5 <= Len(t)
           /\ t[i + 2] = "0" /\ t[i + 3] = "0"
           /\ HexValue(t[i + 4]) \in {0, 1} /\ HexValue(t[i + 5]) >= 0
           /\ code >= 1
        THEN <<ControlChars[code]>> ELSE <<>>

ShortEscapes ==
    [n |-> "\n", r |-> "\r", t |-> "\t", f |-> "\f", b |-> ControlChars[8]]

RECURSIVE ReadChars(_, _, _)
ReadChars(t, i, acc) ==
    IF i > Len(t) \/ t[i] \in ControlSet
    THEN Unread
    ELSE IF t[i] = "\"" THEN [ok |-> TRUE, value |-> acc, next |-> i + 1]
    ELSE IF t[i] = "\\"
    THEN IF i = Len(t) THEN Unread
         ELSE IF t[i + 1] \in {"\"", "\\", "/"}
         THEN ReadChars(t, i + 2, Append(acc, t[i + 1]))
         ELSE IF t[i + 1] \in DOMAIN ShortEscapes
         THEN ReadChars(t, i + 2, Append(acc, ShortEscapes[t[i + 1]]))
         ELSE IF t[i + 1] = "u" /\ i + 5 <= Len(t) /\ Unescaped(t, i) # <<>>
         THEN ReadChars(t, i + 6, acc \o Unescaped(t, i))
         ELSE Unread
    ELSE ReadChars(t, i + 1, Append(acc, t[i]))

ReadString(t, i) ==
    IF i <= Len(t) /\ t[i] = "\"" THEN ReadChars(t, i + 1, <<>>) ELSE Unread

RECURSIVE ReadMembers(_, _, _)
ReadMembers(t, i, acc) ==
    LET k == ReadString(t, SkipSpace(t, i))
        colon == SkipSpace(t, k.next)
        v == ReadString(t, SkipSpace(t, colon + 1))
        sep == SkipSpace(t, v.next)
    IN  IF ~k.ok \/ colon > Len(t) \/ t[colon] # ":" THEN Unread
        ELSE IF ~v.ok \/ sep > Len(t) THEN Unread
        ELSE IF t[sep] = "," THEN ReadMembers(t, sep + 1, acc \cup {<<k.value, v.value>>})
        ELSE IF t[sep] = "}" /\ SkipSpace(t, sep + 1) = Len(t) + 1
        THEN [ok |-> TRUE, value |-> acc \cup {<<k.value, v.value>>},
              next |-> Len(t) + 1]
        ELSE Unread

ReadObject(t) ==
    LET open == SkipSpace(t, 1)
    IN  IF open <= Len(t) /\ t[open] = "{" THEN ReadMembers(t, open + 1, {})
        ELSE Unread

\* the extension of the path being exported to, in lower case
Extension == Lower(suffix(exporting.filepath))

\* C19: the format written depends on the extension of the path only, in
\* whatever case: .json gives a JSON document whose title and content are
\* the ones given, .md and .markdown give a heading with the title, a blank
\* line and the content, and anything else gives the content and a newline,
\* without the title.
C19_FormatByExtension ==
    written # NullText =>
        IF Extension = <<".", "j", "s", "o", "n">>
        THEN LET document == ReadObject(written)
             IN  /\ document.ok
                 /\ document.value =
                       {<<<<"t", "i", "t", "l", "e">>, exporting.title>>,
                        <<<<"c", "o", "n", "t", "e", "n", "t">>, exporting.content>>}
        ELSE IF Extension \in {<<".", "m", "d">>, <<".", "m", "a", "r", "k", "d", "o", "w", "n">>}
        THEN written = <<"#", " ">> \o exporting.title \o <<"\n">>
                       \o <<"\n">> \o exporting.content \o <<"\n">>
        ELSE written = exporting.content \o <<"\n">>

\* a title and a content with quotes in them were written to a path in .JSON
C19_Witness ==
    /\ written # NullText
    /\ exporting.filepath = <<"a", ".", "J", "S", "O", "N">>
    /\ exporting.title = <<"\"", "t", "\"">>
    /\ exporting.content = <<"s", "a", "y", " ", "\"", "x", "\"">>

\* what makes a request fail: validation, input gathering, the backend call,
\* the store, the rendering, or an exception that nothing catches
Failures ==
    {"validate_fail", "gather_fail", "backend_raise", "render_raise",
     "add_raise", "count_raise", "clear_raise", "get_raise", "list_raise"}

Failed(r) == Happened(r, Failures) \/ r.uncaught # ""

\* C20 as stated: every handler, chat included, ends with exit code 1 when
\* validation fails, the backend call fails or an unexpected error occurs,
\* and with 0 only when the request succeeded.
C20_SameConvention ==
    run.handler # "none" =>
        /\ Failed(run) => run.exit_code = 1
        /\ run.exit_code = 0 => ~Failed(run)

\* the handlers that take an output language
LanguageHandlers == {"cmd", "error", "code", "diff", "pipe", "chat", "wtf"}

\* the language a run resolved: --lang, or else the configured default
Resolved(r) == IF r.lang \in {NoneStr, Given("")} THEN config.language ELSE r.lang[1]

\* C21: a handler whose resolved language (--lang, or else the configured
\* default) is not supported exits non-zero and has called no backend, run
\* neither git nor the last shell command, and left the history document as
\* it was.
C21_UnsupportedLanguage ==
    [][(run'.handler \in LanguageHandlers
        /\ Resolved(run') \notin LANGUAGE_NAMES) =>
            /\ run'.exit_code = 1
            /\ posts' = 0
            /\ nasks' = 0
            /\ http' = NoHttp
            /\ reply' = NoReply
            /\ doc' = doc
            /\ ~Happened(run', {"rerun", "backend_raise", "backend_return",
                                "add", "add_raise"})
            /\ run'.handler \in {"diff", "wtf"} =>
                  ~Happened(run', {"gather", "gather_fail", "gather_empty"})]_vars

\* wtf was run without --lang where XPLAIN_LANG names no language, with a
\* token at hand and after a run with --lang had stored an entry
C21_Witness ==
    /\ run.handler = "wtf"
    /\ run.lang = NoneStr
    /\ config.language \notin LANGUAGE_NAMES
    /\ TextTruthy(environ.GH_TOKEN)
    /\ run.exit_code = 1
    /\ run.events = <<"validate_fail">>
    /\ doc.kind = "array"
    /\ doc # doc0

\* the step of the handler an event belongs to: 1 language validation,
\* 2 input gathering, 3 backend call, 4 rendering, 5 history append
Stage(e) ==
    CASE e \in {"validate", "validate_fail"} -> 1
      [] e \in {"gather", "gather_fail", "gather_empty", "rerun"} -> 2
      [] e \in {"backend_raise", "backend_return"} -> 3
      [] e \in {"render", "render_raise"} -> 4
      [] e \in {"add", "add_raise"} -> 5
      [] OTHER -> 0

\* C23: every handler that calls the backend validates the language, then
\* gathers its input, then calls the backend once, then renders, then appends
\* to history: no step of a run comes before an earlier step of the list.
C23_FixedOrder ==
    [][run'.handler \in LanguageHandlers =>
          /\ \A i, j \in 1..Len(run'.events) :
                i < j => Stage(run'.events[i]) <= Stage(run'.events[j])
          /\ Len(BackendEvents(run')) <= 1]_vars

\* the prompt of the request a run sent, and the entry it appended
SentPrompt(h) == h.messages[Len(h.messages)].content

Appended(d) == d.items[Len(d.items)].e

\* the last command failed when run again: a non-zero exit code, more than
\* 15 seconds, or an exception of subprocess.run
RerunFailed(rerun) ==
    rerun.outcome # "exit" \/ rerun.seconds > 15 \/ rerun.returncode # 0

RerunCode(rerun) ==
    IF rerun.outcome = "exit" /\ rerun.seconds <= 15 THEN rerun.returncode ELSE 1

\* the error output Python captures from each of the runs above that fail:
\* what was written to stderr with every line end a "\n" and nothing around
\* it, else what was written to stdout; the note of a timeout; the message of
\* the exception; a note that there was nothing
Captured(rerun) ==
    CASE rerun = FailedRerun -> <<"e", "\n", "r">>
      [] rerun.outcome = "exit" /\ rerun.returncode = 127 -> <<"e", "\n", "f">>
      [] rerun.outcome = "OSError" -> <<"E">>
      [] rerun.outcome = "exit" /\ rerun.seconds > 15 ->
            <<"(", "c", "o", "m", "m", "a", "n", "d", " ", "t", "i", "m", "e", "d",
              " ", "o", "u", "t", " ", "a", "f", "t", "e", "r", " ", "1", "5", "s",
              ")">>
      [] rerun.outcome = "exit" /\ rerun.stderr = <<" ">> -> <<"o">>
      [] OTHER ->
            <<"(", "n", "o", " ", "o", "u", "t", "p", "u", "t", " ",
              "c", "a", "p", "t", "u", "r", "e", "d", ")">>

\* C24: wtf runs the last command again once, for at most 15 seconds. Exit
\* code 0 in time: the prompt is the one that explains the command and the
\* history query is the bare command. A non-zero exit code, a timeout or an
\* exception (both as exit code 1): the prompt is the diagnostic one, holding
\* the command, the exit code and the error output, and the history query is
\* the command followed by the exit code.
C24_RerunThenBranch ==
    [][(run'.handler = "wtf" /\ run'.input # NoInput) =>
          LET last_cmd == run'.input[1]
              rerun == run'.input[2]
              code == Str(RerunCode(rerun))
          IN  /\ Len(SelectSeq(run'.events, LAMBDA e : e = "rerun")) = 1
              /\ http'.sent =>
                    IF RerunFailed(rerun)
                    THEN /\ StartsWith(SentPrompt(http'), <<"w", ":">> \o last_cmd)
                         /\ Contains(SentPrompt(http'),
                                     <<"#">> \o code \o <<"#">> \o Captured(rerun))
                         /\ RerunCode(rerun) # 0
                    ELSE StartsWith(SentPrompt(http'), <<"c", ":">> \o last_cmd)
              /\ Happened(run', {"add"}) =>
                    /\ Appended(doc').command_type = "wtf"
                    /\ Appended(doc').query =
                          IF RerunFailed(rerun)
                          THEN last_cmd \o <<" ", "(", "e", "x", "i", "t", " ">>
                               \o code \o <<")">>
                          ELSE last_cmd]_vars

\* a command that exits with 0, but after more than 15 seconds, was diagnosed
\* as a failure with exit code 1 and recorded so
C24_Witness ==
    /\ run.handler = "wtf"
    /\ run.input # NoInput
    /\ run.input[2].outcome = "exit"
    /\ run.input[2].returncode = 0
    /\ run.input[2].seconds > 15
    /\ Happened(run, {"add"})
    /\ Appended(doc).query = <<"l", "s", " ", "(", "e", "x", "i", "t", " ", "1", ")">>
    /\ http.sent

\* C25: the messages the chat sends for a line are the system message, then
\* at most the 10 most recent messages of the conversation before that line,
\* in their order, then the line as the one final user message.
C25_InputSentOnce ==
    [][(run'.handler = "chat" /\ run'.input # NoInput /\ http'.sent) =>
          LET m == http'.messages
              earlier == PySliceFrom(session.history, -10)
          IN  /\ m[1].role = "system"
              /\ m[Len(m)] = Message("user", run'.input[1])
              /\ SubSeq(m, 2, Len(m) - 1) = earlier]_vars

\* user, assistant, user, assistant, ...
Alternating(history) ==
    /\ Len(history) % 2 = 0
    /\ \A i \in 1..Len(history) :
          history[i].role = IF i % 2 = 1 THEN "user" ELSE "assistant"

\* C26: after each line of the chat the conversation is a list of
\* user/assistant pairs. A call that returned appends the line as a user
\* message and the answer as an assistant message; a call that failed leaves
\* the conversation as it was; /clear empties it and leaves the history store
\* alone; any other slash command and a blank line leave it unchanged.
C26_ConversationPairs ==
    [][(session.active /\ run'.handler = "chat" /\ nruns' = nruns + 1) =>
          LET before == session.history
              after == session'.history
          IN  /\ Alternating(after)
              /\ (Happened(run', {"backend_return"}) /\ session'.active) =>
                    after = before \o <<Message("user", run'.input[1]),
                                        Message("assistant", reply'.text)>>
              /\ Happened(run', {"backend_raise"}) => after = before
              /\ Happened(run', {"clear"}) =>
                    /\ after = <<>>
                    /\ doc' = doc
                    /\ entries' = entries
                    /\ loaded' = loaded
              /\ Happened(run', {"blank", "help", "lang", "lang_unknown", "unknown"})
                    => after = before]_vars

\* C27: a request made on a backend that get_backend() returned does not fail
\* with BackendNotAvailableError: the token that made the backend available
\* is non-empty and is the one sent, also when `gh auth token` exited with 0
\* and printed nothing.
C27_ReturnedBackendCanAsk ==
    [][got'.op = "ask" =>
          /\ reply'.exc # "BackendNotAvailableError"
          /\ TextTruthy(cached_token')
          /\ http'.sent /\ http'.token = cached_token']_vars

\* C28: in every table xplain history prints, the number in the '#' column of
\* an entry is the N for which xplain history --show N, that is get(N),
\* gives that entry.
C28_NumberIsShowIndex ==
    [][listing' # listing =>
          \A k \in 1..Len(listing') :
              get(FALSE, <<>>, doc', listing'[k].idx).result.val
                  = <<listing'[k].entry>>]_vars

\* a text as json.dumps writes it and json.loads reads it back
Reread(t) == IF t = NullText THEN t ELSE ReadString(Quoted(t), 1).value

\* C29: when add() or clear() has returned, the document decodes to exactly
\* the list the store holds, entry by entry and field by field, so a new
\* HistoryStore on it gives the same count, listings, search results and
\* entries as the store that wrote it. (It does on every document that can
\* be read; a file that can be written and not read is rewritten and still
\* makes the new store raise.)
C29_DocumentIsTheList ==
    [][(last'.op \in {"add", "clear"} /\ ncalls' = ncalls + 1
        /\ result'.status = "ok") =>
          /\ loaded'
          /\ _load(FALSE, <<>>, doc') = _load(TRUE, entries', doc')
          /\ \A i \in 1..Len(entries') :
                /\ Reread(entries'[i].query) = entries'[i].query
                /\ Reread(entries'[i].explanation) = entries'[i].explanation
          /\ count(FALSE, <<>>, doc').result = count(TRUE, entries', doc').result
          /\ \A a \in {<<0, NoneStr>>, <<2, Given("cmd")>>} :
                list_entries(FALSE, <<>>, doc', a[1], a[2]).result
                    = list_entries(TRUE, entries', doc', a[1], a[2]).result
          /\ search(FALSE, <<>>, doc', <<"G">>, 1).result
                = search(TRUE, entries', doc', <<"G">>, 1).result
          /\ \A index \in {1, MAX_ENTRIES} :
                get(FALSE, <<>>, doc', index).result
                    = get(TRUE, entries', doc', index).result]_vars

\* C30: the entry a handler appends has the handler's own name as its
\* command_type, one of cmd, error, code, diff, pipe, chat and wtf, and a
\* supported language code; the language of an open chat is a supported one
\* whatever /lang commands it has read, and an unknown code leaves it as it was.
C30_EntryTypeAndLanguage ==
    [][
        /\ (run'.handler \in LanguageHandlers /\ Happened(run', {"add"})) =>
             /\ doc'.kind = "array"
             /\ Appended(doc').command_type = run'.handler
             /\ Appended(doc').command_type
                   \in {"cmd", "error", "code", "diff", "pipe", "chat", "wtf"}
             /\ Appended(doc').language \in LANGUAGE_NAMES
             /\ Appended(doc').timestamp = now
        /\ session'.output_lang \in LANGUAGE_NAMES
        /\ Happened(run', {"lang_unknown"}) =>
             session'.output_lang = session.output_lang
      ]_vars

\* a chat in Vietnamese that has stored an exchange was asked for a language
\* that is not supported, and goes on in Vietnamese
C30_Witness ==
    /\ session.active
    /\ run.events = <<"lang_unknown">>
    /\ session.output_lang = "vi"
    /\ doc.kind = "array"
    /\ Len(doc.items) >= 1
    /\ Appended(doc).command_type = "chat"
    /\ Appended(doc).language = "vi"

-----------------------------------------------------------------------------
(* Claims about two writers of one document *)

Timestamps(items) == {items[k].e.timestamp : k \in 1..Len(items)}

\* C22: add() is an unlocked read-modify-write of the whole document. The
\* list a process writes is the list it read or cached and the new entry,
\* whatever the document has become since; opening the document empties it;
\* and what the write leaves is that list alone, or that list with the rest
\* of a longer text another process wrote meanwhile, never the other's
\* entries. So an entry whose add() returned can be missing afterwards.
C22_UnlockedRewrite ==
    [][\A i \in Procs :
          /\ (procs[i].pc = "adding" /\ procs'[i].pc = "writing") =>
                /\ doc' = EmptyFile
                /\ procs'[i].entries =
                      Append(procs[i].entries,
                             HistoryEntry(now, "cmd", <<"l", "s">>, <<"h", "i">>,
                                          "en", MetaEmpty))
          /\ (procs[i].pc = "writing" /\ procs'[i].pc = "idle") =>
                /\ doc' \in {SaveDoc(procs[i].entries), TornFile(doc.items)}
                /\ doc = EmptyFile => doc' = SaveDoc(procs[i].entries)
                /\ doc'.kind = "array" =>
                      Timestamps(doc'.items) =
                          {procs[i].entries[k].timestamp :
                              k \in 1..Len(procs[i].entries)}]_vars

\* two add() calls on a new history have returned and the document holds the
\* entry of the second writer only
C22_Witness ==
    /\ doc0.kind = "missing"
    /\ Cardinality(completed) = 2
    /\ doc.kind = "array"
    /\ Len(doc.items) = 1
    /\ \A ts \in completed : ts <= doc.items[1].e.timestamp
    /\ \A i \in Procs : procs[i].pc = "idle"

=============================================================================
